---- MODULE Spec2Model ----
(***************************************************************************)
(* A model of the EC2 cluster manager and the task database of reflow:     *)
(*   - the instance-type selector (ec2cluster/instance.go, instanceState), *)
(*   - the instance launch driver (ec2cluster/instance.go, instance.Go),   *)
(*   - the upload of the worker image (ec2cluster/instance.go,             *)
(*     uploadImage),                                                       *)
(*   - the task database (taskdb/dynamodbtask/dynamodb.go, TaskDB),        *)
(*   - the reflowlet's idle loop and its /v1/execimage handler             *)
(*     (reflowlet/reflowlet.go),                                           *)
(*   - the blob transfer exec and the rate exporters that                  *)
(*     local/blob_test.go drives,                                          *)
(*   - the bring-up of the reflowlet (reflowlet/reflowlet.go,              *)
(*     ListenAndServe and setTags),                                        *)
(*   - the Exec of the test executor (test/testutil/executor.go).          *)
(* Prices are in thousandths of a dollar, memory in GiB, time in ticks.    *)
(***************************************************************************)
EXTENDS Integers, Sequences, FiniteSets, TLC

VARIABLES
    configs,        \* instanceState.configs: the selector's sorted list
    unavailable,    \* instanceState.unavailable: map type -> time of marking
    now,            \* the clock read by time.Now and time.Since
    ret,            \* the last selector call and what it returned
    marked          \* history: per type, the times of its first and last marking

selVars == <<configs, unavailable, now, ret, marked>>

VARIABLES
    Spot,           \* instance.Spot
    SpotProbeDepth, \* instance.SpotProbeDepth
    err,            \* instance.err
    ec2inst,        \* instance.ec2inst
    state,          \* Go: the launch state
    id,             \* Go: the instance id
    dns,            \* Go: the public DNS name
    n,              \* Go: failed attempts of the current state so far
    d,              \* Go: the next delay, in seconds
    pc,             \* Go: "loop" while running, then "returned" or "panic"; "idle": not called
    ctxErr,         \* ctx.Err() of the context passed to Go
    digestOnce,     \* what imageDigest() memoizes: <<localDigest, err>>
    uploadOnce,     \* what uploadOnce memoizes: Fresh, or the error of its run
    attempted,      \* history: the state whose case ran in the last iteration
    opErr,          \* history: i.err as that case left it
    tries,          \* history: attempts of the current state since its last success
    slept,          \* history: the delays slept since the last success
    passed,         \* history: the states whose last attempt left no error
    dryRun,         \* history: the last dry run, its MinCount and its answer
    launched,       \* history: launch() has been called
    created,        \* history: the instances the cloud has created for this driver
    callErr         \* history: the error the operation of the last case returned

goVars == <<Spot, SpotProbeDepth, err, ec2inst, state, id, dns, n, d, pc, ctxErr,
            digestOnce, uploadOnce, attempted, opErr, tries, slept, passed,
            dryRun, launched, created, callErr>>

VARIABLES
    once,           \* the once.Task values; once[0] is the package's uploadOnce
    upPc,           \* uploadImage: where each caller stands
    upRet,          \* uploadImage: what each caller's last call returned
    upCalls,        \* history: the calls each caller has made
    arrived,        \* history: a call of the caller began while the body ran
    bodies          \* history: the outcomes of the executions of the body

onceVars == <<once, upPc, upRet, upCalls, arrived, bodies>>

VARIABLES
    rows,           \* the DynamoDB table: the item stored under each ID
    wall,           \* time.Now() as the task database reads it
    kaHist,         \* history: the instant of the last Keepalive that succeeded on the item
    dbRet           \* the last Runs or Tasks call and what it returned

dbVars == <<rows, wall, kaHist, dbRet>>

VARIABLES
    tokens,         \* TaskDB.limiter: the tokens it holds
    pending,        \* functions of traverse.Each that have not yet called the database
    inflight        \* calls to the database that have not yet returned

limVars == <<tokens, pending, inflight>>

VARIABLES
    EC2Cluster,     \* Server.EC2Cluster
    busy,           \* the pool has work
    idleFor,        \* the minutes the pool has been idle, up to expiry
    stopped,        \* the pool was stopped by StopIfIdleFor
    proc,           \* the reflowlet process: "running", "exited" or "replaced"
    timer,          \* the minutes left of the time.Sleep of the idle loop
    image,          \* the digest of the image the reflowlet runs
    uptime,         \* history: the minutes since p.Start(), up to expiry
    sinceCheck,     \* history: the minutes since the last check, up to period; -1: no check yet
    lastCheck,      \* history: the last check of the idle loop
    post            \* history: the last request to /v1/execimage

letVars == <<EC2Cluster, busy, idleFor, stopped, proc, timer, image, uptime,
             sinceCheck, lastCheck, post>>

VARIABLES
    transferType,   \* blobExec.transferType: intern or extern
    URL,            \* blobExec.Config.URL: the key or prefix after scheme://bucket/
    Args,           \* blobExec.Config.Args: the fileset to extern
    blob,           \* the bucket: the object stored under each key it has
    repository,     \* blobExec.Repository: the digests of the files it holds
    staging,        \* blobExec.staging: the digests of the files fetched
    todo,           \* the entries still to transfer
    fileset,        \* the result of the exec
    xpc,            \* the exec: "init", "transfer", "complete", "promoted", "error"; "idle": none
    gets            \* history: the GetObject calls issued

blobVars == <<transferType, URL, Args, blob, repository, staging, todo, fileset,
              xpc, gets>>

VARIABLES
    exp,            \* the exported counter that the rate exporters share
    rws,            \* the rateExporters
    adds            \* history: the number of Add calls begun

rateVars == <<exp, rws, adds>>

VARIABLES
    reflowletVersion, \* Server.version
    configFlag,     \* Server.configFlag
    Insecure,       \* Server.Insecure
    lsPc,           \* where ListenAndServe is
    tags,           \* the reflowlet tags of the EC2 instance
    tagWrite,       \* history: the outcome of setTags' CreateTags
    handlers,       \* the paths registered with http.Handle
    served,         \* history: the requests to /v1/config answered
    lsErr           \* what ListenAndServe returned

bootVars == <<reflowletVersion, configFlag, Insecure, lsPc, tags, tagWrite, handlers,
              served, lsErr>>

VARIABLES
    resultc,        \* Exec.resultc: a channel with a buffer of one
    xPc,            \* where each caller of Ok or Error is
    xVal,           \* the result a caller of Ok brings
    rdPc,           \* where each caller of result is
    rdVal,          \* the result a caller of result has received
    rdRet,          \* what the last call of result of each caller returned
    stored,         \* history: the results Ok has sent into resultc
    crashed         \* the message of the panic that ended the process, or ""

execVars == <<resultc, xPc, xVal, rdPc, rdVal, rdRet, stored, crashed>>

lastVars == <<bootVars, execVars>>

moreVars == <<limVars, letVars, blobVars, rateVars, lastVars>>

vars == <<selVars, goVars, onceVars, dbVars, moreVars>>

\* What the selector, the launch driver, the upload and the task database
\* leave alone.
outsideSel == <<goVars, onceVars, dbVars, moreVars>>

outsideGo == <<selVars, onceVars, dbVars, moreVars>>

outsideOnce == <<selVars, goVars, dbVars, moreVars>>

outsideDb == <<selVars, goVars, onceVars, moreVars>>

outsideLim == <<selVars, goVars, onceVars, dbVars, letVars, blobVars, rateVars, lastVars>>

outsideLet == <<selVars, goVars, onceVars, dbVars, limVars, blobVars, rateVars, lastVars>>

outsideBlob == <<selVars, goVars, onceVars, dbVars, limVars, letVars, rateVars, lastVars>>

outsideRate == <<selVars, goVars, onceVars, dbVars, limVars, letVars, blobVars, lastVars>>

\* What ListenAndServe leaves alone besides the reflowlet's variables.
outsideBoot == <<selVars, goVars, onceVars, dbVars, limVars, blobVars, rateVars, execVars>>

outsideExec == <<selVars, goVars, onceVars, dbVars, limVars, letVars, blobVars, rateVars,
                 bootVars>>

(***************************************************************************)
(* Bounds of the model.                                                    *)
(***************************************************************************)
\* The requests to /v1/config that are counted.
MaxRequests == 2
\* The goroutines that read the result of a test Exec, and those that set it.
NumReaders == 2
NumSetters == 2
\* Number of instance configurations a selector is built with.
NumConfigs == 3
\* The same, where the clock and the unavailable map vary as well.
NumSelConfigs == 2
\* The clock stops ticking here.
MaxTime == 3
\* instanceState.sleepTime, as passed to newInstanceState.
sleepTime == 2
\* Number of launch drivers that upload the image concurrently.
NumDrivers == 2
\* Number of uploadImage calls each of them makes.
MaxCalls == 2
\* Number of calendar days the task database's clock and timestamps span.
NumDays == 2
\* The database calls, begun or about to begin, that the model follows.
MaxInflight == 34
\* The rate exporters that share a counter, and the Add calls made.
NumExporters == 2
MaxAdds == 3
\* The ticks a rate is taken over.
MaxElapsed == 2

(***************************************************************************)
(* Program constants.                                                      *)
(***************************************************************************)
ebsThroughputPremiumCost == 30
ebsThroughputPremiumPct == 15
ebsThroughputBenefitPct == 50
MaxFloat64 == 1000000

\* instanceState.region
region == "us-west-2"

(***************************************************************************)
(* reflow.Resources: a Go map from resource name to amount.  A missing key *)
(* reads as 0.                                                             *)
(***************************************************************************)
NoResources == [k \in {} |-> 0]

Res(cpu, mem) == [k \in {"cpu", "mem"} |-> IF k = "cpu" THEN cpu ELSE mem]

Get(r, key) == IF key \in DOMAIN r THEN r[key] ELSE 0

Abs(x) == IF x < 0 THEN -x ELSE x

\* (Resources).Available: r has at least s of every resource s names.
ResAvailable(r, s) == \A key \in DOMAIN s : ~(Get(r, key) < s[key])

\* (Resources).ScaledDistance: 6 GiB of memory weigh as much as one cpu;
\* the value is scaled by 6 to stay in the integers.
ScaledDistance(r, u) ==
    Abs(Get(r, "mem") - Get(u, "mem")) + 6 * Abs(Get(r, "cpu") - Get(u, "cpu"))

(***************************************************************************)
(* instanceConfig.  Price is a Go map region -> price.                     *)
(***************************************************************************)
NoPrice == [k \in {} |-> 0]

PriceIn(p) == [k \in {region} |-> p]

instanceConfig(typ, ebs, res, price, spotOk) ==
    [Type |-> typ, EBSThroughput |-> ebs, Resources |-> res,
     Price |-> price, SpotOk |-> spotOk]

\* The zero value instanceConfig{}.
ZeroConfig == instanceConfig("", 0, NoResources, NoPrice, FALSE)

TypeNames == <<"a.large", "b.large", "c.large", "d.large", "e.large">>

\* The lists sort.Slice can leave in s.configs: descending by memory, in
\* any order among configs of equal memory (the sort is not stable).  The
\* i-th config of the list is given the i-th type name.
IsSorted(s) ==
    \A i, j \in 1..Len(s) :
        i < j => ~(Get(s[i].Resources, "mem") < Get(s[j].Resources, "mem"))

newInstanceState(num, Attrs) ==
    { [i \in 1..num |->
          instanceConfig(TypeNames[i], a[i].EBSThroughput, a[i].Resources,
                         a[i].Price, a[i].SpotOk)] :
      a \in { b \in [1..num -> Attrs] : IsSorted(b) } }

(***************************************************************************)
(* The selector's operations.  Each holds s.mu from start to end, so each  *)
(* is one atomic step.                                                     *)
(***************************************************************************)
\* Faulty variant of Asleep: the window ends one tick early.
AsleepShort(typ) ==
    /\ typ \in DOMAIN unavailable
    /\ now - unavailable[typ] < sleepTime - 1

\* time.Since(s.unavailable[typ]) < s.sleepTime.  A type that was never
\* marked reads as the zero time, which is longer ago than any sleepTime.
Asleep(typ) ==
    /\ typ \in DOMAIN unavailable
    /\ now - unavailable[typ] < sleepTime

\* Faulty variant of MaxLoop: among configs of equal distance the last one wins.
RECURSIVE MaxLoopLastTie(_, _, _, _, _)
MaxLoopLastTie(i, need, spot, best, distance) ==
    IF i > Len(configs) THEN best
    ELSE LET config == configs[i]
             dist == ScaledDistance(config.Resources, need)
         IN  IF Asleep(config.Type) \/ (spot /\ ~config.SpotOk)
                 THEN MaxLoopLastTie(i + 1, need, spot, best, distance)
             ELSE IF ~ResAvailable(config.Resources, need)
                 THEN MaxLoopLastTie(i + 1, need, spot, best, distance)
             ELSE IF dist >= distance
                 THEN MaxLoopLastTie(i + 1, need, spot, config, dist)
             ELSE MaxLoopLastTie(i + 1, need, spot, best, distance)

\* The loop of MaxAvailable from index i on: the config it ends with.
RECURSIVE MaxLoop(_, _, _, _, _)
MaxLoop(i, need, spot, best, distance) ==
    IF i > Len(configs) THEN best
    ELSE LET config == configs[i]
             dist == ScaledDistance(config.Resources, need)
         IN  IF Asleep(config.Type) \/ (spot /\ ~config.SpotOk)
                 THEN MaxLoop(i + 1, need, spot, best, distance)
             ELSE IF ~ResAvailable(config.Resources, need)
                 THEN MaxLoop(i + 1, need, spot, best, distance)
             ELSE IF dist > distance
                 THEN MaxLoop(i + 1, need, spot, config, dist)
             ELSE MaxLoop(i + 1, need, spot, best, distance)

\* What MaxAvailable returns: <<best, ok>>.
MaxAvailableRet(need, spot) ==
    LET best == MaxLoop(1, need, spot, ZeroConfig, -MaxFloat64)
    IN  <<best, ResAvailable(best.Resources, need)>>

\* Faulty variant of MinLoop: the spot market is not looked at.
RECURSIVE MinLoopAnySpot(_, _, _, _)
MinLoopAnySpot(i, need, spot, acc) ==
    IF i > Len(configs) THEN acc
    ELSE LET config == configs[i]
         IN  IF Asleep(config.Type)
                 THEN MinLoopAnySpot(i + 1, need, spot, acc)
             ELSE IF ~ResAvailable(config.Resources, need)
                 THEN MinLoopAnySpot(i + 1, need, spot, acc)
             ELSE IF region \notin DOMAIN config.Price
                 THEN MinLoopAnySpot(i + 1, need, spot, acc)
             ELSE LET price == config.Price[region]
                      viable == Append(acc.viable, config)
                  IN  IF price < acc.bestPrice
                          THEN MinLoopAnySpot(i + 1, need, spot,
                                  [viable |-> viable, best |-> config,
                                   bestPrice |-> price])
                      ELSE MinLoopAnySpot(i + 1, need, spot,
                                  [acc EXCEPT !.viable = viable])

\* The first loop of MinAvailable from index i on: the viable configs and
\* the first cheapest of them.
RECURSIVE MinLoop(_, _, _, _)
MinLoop(i, need, spot, acc) ==
    IF i > Len(configs) THEN acc
    ELSE LET config == configs[i]
         IN  IF Asleep(config.Type) \/ (spot /\ ~config.SpotOk)
                 THEN MinLoop(i + 1, need, spot, acc)
             ELSE IF ~ResAvailable(config.Resources, need)
                 THEN MinLoop(i + 1, need, spot, acc)
             ELSE IF region \notin DOMAIN config.Price
                 THEN MinLoop(i + 1, need, spot, acc)
             ELSE LET price == config.Price[region]
                      viable == Append(acc.viable, config)
                  IN  IF price < acc.bestPrice
                          THEN MinLoop(i + 1, need, spot,
                                  [viable |-> viable, best |-> config,
                                   bestPrice |-> price])
                      ELSE MinLoop(i + 1, need, spot,
                                  [acc EXCEPT !.viable = viable])

\* Faulty variant of WorthPremium: the two throughputs are compared the wrong way round.
WorthPremiumSwapped(config, best, bestPrice) ==
    LET price == config.Price[region]
    IN  /\ \/ price < bestPrice + ebsThroughputPremiumCost
           \/ price * 100 < bestPrice * (100 + ebsThroughputPremiumPct)
        /\ best.EBSThroughput * 100
               > config.EBSThroughput * (100 + ebsThroughputBenefitPct)

\* The premium test of MinAvailable: config is reasonably more expensive
\* than best and has sufficiently more EBS throughput.
WorthPremium(config, best, bestPrice) ==
    LET price == config.Price[region]
    IN  /\ \/ price < bestPrice + ebsThroughputPremiumCost
           \/ price * 100 < bestPrice * (100 + ebsThroughputPremiumPct)
        /\ config.EBSThroughput * 100
               > best.EBSThroughput * (100 + ebsThroughputBenefitPct)

\* Faulty variant of PremiumLoop: after the switch to a config of more
\* throughput, no cheaper config of the same throughput is looked for.
RECURSIVE PremiumLoopNoCheaper(_, _, _)
PremiumLoopNoCheaper(j, viable, acc) ==
    IF j > Len(viable) THEN acc
    ELSE LET config == viable[j]
             price == config.Price[region]
         IN  IF ~acc.found /\ WorthPremium(config, acc.best, acc.bestPrice)
                 THEN PremiumLoopNoCheaper(j + 1, viable,
                          [best |-> config, bestPrice |-> price, found |-> TRUE])
             ELSE PremiumLoopNoCheaper(j + 1, viable, acc)

\* The second loop of MinAvailable from index j of viable on.
RECURSIVE PremiumLoop(_, _, _)
PremiumLoop(j, viable, acc) ==
    IF j > Len(viable) THEN acc
    ELSE LET config == viable[j]
             price == config.Price[region]
             a1 == IF ~acc.found /\ WorthPremium(config, acc.best, acc.bestPrice)
                       THEN [best |-> config, bestPrice |-> price, found |-> TRUE]
                       ELSE acc
             a2 == IF /\ a1.found
                      /\ price < a1.bestPrice
                      /\ config.EBSThroughput >= a1.best.EBSThroughput
                       THEN [best |-> config, bestPrice |-> price, found |-> TRUE]
                       ELSE a1
         IN  PremiumLoop(j + 1, viable, a2)

\* What the first loop of MinAvailable leaves.
MinCheapest(need, spot) ==
    MinLoop(1, need, spot,
            [viable |-> <<>>, best |-> ZeroConfig, bestPrice |-> MaxFloat64])

\* What MinAvailable returns: <<best, ok>>.
MinAvailableRet(need, spot) ==
    LET c == MinCheapest(need, spot)
        p == PremiumLoop(1, c.viable,
                 [best |-> c.best, bestPrice |-> c.bestPrice, found |-> FALSE])
    IN  <<p.best, ResAvailable(p.best.Resources, need)>>

\* What Type returns: <<config, ok>>.
TypeRet(typ) ==
    IF Asleep(typ) THEN <<ZeroConfig, FALSE>>
    ELSE IF \E i \in 1..Len(configs) : configs[i].Type = typ
        THEN LET i == CHOOSE k \in 1..Len(configs) :
                          /\ configs[k].Type = typ
                          /\ \A m \in 1..(k - 1) : configs[m].Type # typ
             IN  <<configs[i], TRUE>>
    ELSE <<ZeroConfig, FALSE>>

\* No type has been marked.
NoneMarked == [t \in {} |-> [first |-> 0, last |-> 0]]

NoRet ==
    [op |-> "none", need |-> NoResources, spot |-> FALSE, typ |-> "",
     config |-> ZeroConfig, ok |-> FALSE, asleep |-> {}]

\* History: the types last marked at a time T with T <= now < T + sleepTime.
MarkedWithin ==
    { t \in DOMAIN marked :
        marked[t].last <= now /\ now < marked[t].last + sleepTime }

Called(op, need, spot, typ, r) ==
    ret' = [op |-> op, need |-> need, spot |-> spot, typ |-> typ,
            config |-> r[1], ok |-> r[2], asleep |-> MarkedWithin]

\* Faulty variant of Marking: a type that is already in the map keeps its time.
MarkingKeepsFirst(m, typ, t) ==
    [k \in DOMAIN m \cup {typ} |-> IF k \in DOMAIN m THEN m[k] ELSE t]

\* s.unavailable[config.Type] = time.Now()
Marking(m, typ, t) ==
    [k \in DOMAIN m \cup {typ} |-> IF k = typ THEN t ELSE m[k]]

\* (*instanceState).Unavailable
Unavailable(config) ==
    /\ unavailable' = Marking(unavailable, config.Type, now)
    /\ marked' = [k \in DOMAIN marked \cup {config.Type} |->
                     IF k # config.Type THEN marked[k]
                     ELSE IF k \in DOMAIN marked
                         THEN [first |-> marked[k].first, last |-> now]
                     ELSE [first |-> now, last |-> now]]
    /\ UNCHANGED <<configs, now, ret, outsideSel>>

\* (*instanceState).MaxAvailable
MaxAvailable(need, spot) ==
    /\ Called("MaxAvailable", need, spot, "", MaxAvailableRet(need, spot))
    /\ UNCHANGED <<configs, unavailable, now, marked, outsideSel>>

\* (*instanceState).MinAvailable
MinAvailable(need, spot) ==
    /\ Called("MinAvailable", need, spot, "", MinAvailableRet(need, spot))
    /\ UNCHANGED <<configs, unavailable, now, marked, outsideSel>>

\* (*instanceState).Type
Type(typ) ==
    /\ Called("Type", NoResources, FALSE, typ, TypeRet(typ))
    /\ UNCHANGED <<configs, unavailable, now, marked, outsideSel>>

\* Time passes between calls.
Tick ==
    /\ now < MaxTime
    /\ now' = now + 1
    /\ UNCHANGED <<configs, unavailable, ret, marked, outsideSel>>

(***************************************************************************)
(* Errors.  kind is the reflow error kind errors.Is and errors.Recover     *)
(* see; code is the code of an awserr.Error and "" for any other error;    *)
(* wrapped tells an error made by errors.E around (or in place of) the     *)
(* error a call returned.                                                  *)
(***************************************************************************)
Nil == [kind |-> "nil", code |-> "", wrapped |-> FALSE]

Err(kind) == [kind |-> kind, code |-> "", wrapped |-> FALSE]

\* An awserr.Error: not a reflow error, so its kind is Other.
AwsErr(code) == [kind |-> "Other", code |-> code, wrapped |-> FALSE]

\* errors.E(kind, ...)
E(kind) == [kind |-> kind, code |-> "", wrapped |-> TRUE]

\* errors.Is(kind, e)
Is(kind, e) == e # Nil /\ e.kind = kind

\* The codes that tell a capacity problem.
CapacityCodes ==
    {"InsufficientCapacity", "InsufficientInstanceCapacity", "InsufficientHostCapacity",
     "InsufficientReservedInstanceCapacity", "InstanceLimitExceeded"}

\* The errors a cloud or worker call can return.
CallErrs ==
    { Err(k) : k \in {"Other", "Temporary", "Timeout", "Fatal", "Unavailable", "Net"} }
    \cup { AwsErr(c) : c \in CapacityCodes \cup {"RequestLimitExceeded"} }

(***************************************************************************)
(* The launch driver, instance.Go.                                         *)
(***************************************************************************)
maxTries == 5
stateCapacity == 0
stateLaunch == 1
stateTag == 2
stateWaitInstance == 3
stateDescribeDns == 4
stateWaitReflowlet == 5
stateDescribeTags == 6
stateUpdateImage == 7
stateDone == 8
\* d = 5 * time.Second
firstDelay == 5

\* An *ec2.Instance as describeInstance returns it; NilString is a nil *string.
NilString == "<nil>"

NilInstance == [PublicDnsName |-> NilString, Version |-> "", Digest |-> "", isNil |-> TRUE]

Ec2Instance(name, version, digest) ==
    [PublicDnsName |-> name, Version |-> version, Digest |-> digest, isNil |-> FALSE]

\* The descriptions the cloud can return: with or without a DNS name, and
\* with the tags reflowlet:version and reflowlet:digest set or not.
Descriptions ==
    { Ec2Instance(name, v, dg) :
        name \in {NilString, "", "ec2-host"},
        v \in {"", "reflow1.4"},
        dg \in {"", "bad", "sha256:d1", "sha256:d2", "sha256:D2"} }

\* digest.Parse: <<digest, err>>.  Hexadecimal digits parse in either case.
digestParse(str) ==
    CASE str \in {"sha256:d1"} -> <<"D1", Nil>>
      [] str \in {"sha256:d2", "sha256:D2"} -> <<"D2", Nil>>
      [] OTHER -> <<"", Err("Other")>>

\* (*instance).Instance, newReflowletInstance and update: the tags read
\* off i.ec2inst.
Instance == [Version |-> ec2inst.Version, Digest |-> ec2inst.Digest,
             PublicDnsName |-> ec2inst.PublicDnsName]

\* (*instance).Err
ErrOf == err

\* The awserr reclassification: capacity codes become Unavailable.
Reclassify(e) ==
    IF e.code # "" /\ e.code \in CapacityCodes THEN E("Unavailable") ELSE e

\* Faulty variant of Aborts: only Fatal returns at once.
AbortsFatalOnly(e) == Is("Fatal", e)

\* The errors the dispatch returns on at once.
Aborts(e) == Is("Fatal", e) \/ Is("Unavailable", e)

\* Faulty variant of Advance: a state is stepped over.
AdvanceSkipping(st) == st + 2

\* state++
Advance(st) == st + 1

\* n == maxTries: the retry budget is used up.
Exhausted(k) == k = maxTries

\* Faulty variant of NextDelay: the delay grows by its first value.
NextDelayLinear(x) == x + firstDelay

\* d *= time.Duration(2)
NextDelay(x) == x * 2

\* Lines 518-575: what follows the case of a state.  st is the state the
\* case left, e the error it left in i.err, raw the error its operation
\* returned.
AfterCaseOf(st, e, raw) ==
    /\ attempted' = state
    /\ callErr' = raw
    /\ opErr' = e
    /\ IF e = Nil
          THEN /\ n' = 0
               /\ d' = firstDelay
               /\ state' = Advance(st)
               /\ err' = e
               /\ pc' = "loop"
               /\ tries' = 0
               /\ slept' = <<>>
               /\ passed' = passed \cup {state}
       ELSE IF Exhausted(n)
          \* break, and i.err != nil after the loop: return
          THEN /\ pc' = "returned"
               /\ err' = e
               /\ state' = st
               /\ tries' = tries + 1
               /\ passed' = passed \ {state}
               /\ UNCHANGED <<n, d, slept>>
       ELSE IF Aborts(Reclassify(e))
          THEN /\ pc' = "returned"
               /\ err' = Reclassify(e)
               /\ state' = st
               /\ tries' = tries + 1
               /\ passed' = passed \ {state}
               /\ UNCHANGED <<n, d, slept>>
       ELSE    \* time.Sleep(d)
               /\ slept' = Append(slept, d)
               /\ n' = n + 1
               /\ d' = NextDelay(d)
               /\ err' = Reclassify(e)
               /\ state' = st
               /\ pc' = "loop"
               /\ tries' = tries + 1
               /\ passed' = passed \ {state}

\* What follows a case that leaves in i.err what its operation returned.
AfterCase(st, e) == AfterCaseOf(st, e, e)

\* The loop condition of Go, for the case of state st.
InState(st) == pc = "loop" /\ state = st /\ state < stateDone /\ ctxErr = Nil

\* What RunInstancesWithContext can answer to the dry run.
DryRunAnswers ==
    {Nil, Err("DeadlineExceeded"), Err("Canceled"), Err("Other")}
    \cup { AwsErr(c) : c \in {"DryRunOperation", "RequestCanceled",
                              "InsufficientInstanceCapacity", "RequestLimitExceeded"} }

\* Faulty variant of ec2HasCapacity: a cancelled request counts as capacity.
ec2HasCapacityLenient(r) ==
    IF r = Nil THEN <<FALSE, Err("Other")>>
    ELSE IF r.code \in {"DryRunOperation", "RequestCanceled"} THEN <<TRUE, Nil>>
    ELSE IF r.code # "" THEN <<FALSE, r>>
    ELSE IF r.kind = "DeadlineExceeded" THEN <<FALSE, Nil>>
    ELSE IF r.kind = "Canceled" THEN <<FALSE, r>>
    ELSE <<FALSE, Err("Other")>>

\* No dry run was made.
NoDryRun == [MinCount |-> 0, answer |-> Nil]

\* (*instance).ec2HasCapacity, on the answer r of the dry run: <<ok, err>>.
ec2HasCapacity(r) ==
    IF r = Nil THEN <<FALSE, Err("Other")>>
    ELSE IF r.code = "DryRunOperation" THEN <<TRUE, Nil>>
    ELSE IF r.code = "RequestCanceled" THEN <<FALSE, Nil>>
    ELSE IF r.code # "" THEN <<FALSE, r>>
    ELSE IF r.kind = "DeadlineExceeded" THEN <<FALSE, Nil>>
    ELSE IF r.kind = "Canceled" THEN <<FALSE, r>>
    ELSE <<FALSE, Err("Other")>>

Capacity ==
    /\ InState(stateCapacity)
    /\ IF ~Spot \/ SpotProbeDepth = 0
          THEN AfterCase(state, err) /\ UNCHANGED dryRun
       ELSE \E r \in DryRunAnswers :
              LET c == ec2HasCapacity(r)
              IN  /\ dryRun' = [MinCount |-> SpotProbeDepth, answer |-> r]
                  /\ IF c[2] = Nil /\ ~c[1]
                        THEN AfterCase(state, E("Unavailable"))
                     ELSE AfterCase(state, c[2])
    /\ UNCHANGED <<outsideGo, launched, created, Spot, SpotProbeDepth, ec2inst, id, dns, ctxErr,
                   digestOnce, uploadOnce>>

\* launch: ec2RunSpotInstance for a spot driver, ec2RunInstance otherwise.
\* made tells whether the cloud created an instance during the call: it did
\* when the call returns an id, and for a spot driver also when the request
\* was fulfilled and DescribeSpotInstanceRequests, or the reading of its
\* answer, then failed.
Launch ==
    /\ InState(stateLaunch)
    /\ launched' = TRUE
    /\ \E r \in {Nil} \cup CallErrs, made \in BOOLEAN :
          /\ r = Nil => made
          /\ (made /\ r # Nil) => Spot
          /\ created' = IF made THEN created + 1 ELSE created
          /\ id' = IF r = Nil THEN "i-1" ELSE ""
          /\ AfterCase(state, r)
    /\ UNCHANGED <<outsideGo, dryRun, Spot, SpotProbeDepth, ec2inst, dns, ctxErr,
                   digestOnce, uploadOnce>>

Tag ==
    /\ InState(stateTag)
    /\ \E r \in {Nil} \cup CallErrs : AfterCase(state, r)
    /\ UNCHANGED <<outsideGo, dryRun, launched, created, Spot, SpotProbeDepth, ec2inst, id, dns, ctxErr,
                   digestOnce, uploadOnce>>

WaitInstance ==
    /\ InState(stateWaitInstance)
    /\ \E r \in {Nil} \cup CallErrs : AfterCase(state, r)
    /\ UNCHANGED <<outsideGo, dryRun, launched, created, Spot, SpotProbeDepth, ec2inst, id, dns, ctxErr,
                   digestOnce, uploadOnce>>

\* describeInstance: <<instance, err>> on the answer r of DescribeInstances,
\* which is an error, a malformed output, or one instance.
describeInstance(r) ==
    IF r.err # Nil THEN <<NilInstance, r.err>>
    ELSE IF ~r.valid THEN <<NilInstance, Err("Other")>>
    ELSE <<r.inst, Nil>>

DescribeAnswers ==
    { [err |-> e, valid |-> FALSE, inst |-> NilInstance] : e \in {Nil} \cup CallErrs }
    \cup { [err |-> Nil, valid |-> TRUE, inst |-> i] : i \in Descriptions }

DescribeDns ==
    /\ InState(stateDescribeDns)
    /\ \E r \in DescribeAnswers :
          LET di == describeInstance(r)
          IN  /\ ec2inst' = di[1]
              /\ IF di[2] # Nil
                    THEN dns' = dns /\ AfterCase(state, di[2])
                 ELSE IF di[1].PublicDnsName \in {NilString, ""}
                    THEN dns' = dns /\ AfterCase(state, Err("Other"))
                 ELSE dns' = di[1].PublicDnsName /\ AfterCase(state, Nil)
    /\ UNCHANGED <<outsideGo, dryRun, launched, created, Spot, SpotProbeDepth, id, ctxErr, digestOnce, uploadOnce>>

\* Faulty variant of SameDigest: the digests are not compared.
SameDigestAlways(remoteDigest, localDigest) == TRUE

\* remoteDigest == localDigest
SameDigest(remoteDigest, localDigest) == remoteDigest = localDigest

\* The errors a call to the worker can return.
WorkerErrs ==
    { Err(k) : k \in {"Other", "Temporary", "Timeout", "Fatal", "Unavailable", "Net"} }

\* What client.New and c.Config can answer: client.New fails, or Config
\* answers nil or an error whose text may end in "connection refused".
WaitReflowlet ==
    /\ InState(stateWaitReflowlet)
    /\ \/ AfterCaseOf(state, E("Fatal"), Err("Other"))
       \/ \E r \in {Nil} \cup WorkerErrs, refused \in BOOLEAN :
             IF r # Nil /\ refused THEN AfterCaseOf(state, E("Temporary"), r)
             ELSE AfterCase(state, r)
    /\ UNCHANGED <<outsideGo, dryRun, launched, created, Spot, SpotProbeDepth, ec2inst, id, dns, ctxErr,
                   digestOnce, uploadOnce>>

DescribeTags ==
    /\ InState(stateDescribeTags)
    /\ \E r \in DescribeAnswers :
          LET di == describeInstance(r)
              remote == digestParse(di[1].Digest)
          IN  /\ ec2inst' = di[1]
              /\ IF di[2] # Nil
                    THEN AfterCaseOf(state, E("Temporary"), di[2])
                 ELSE IF di[1].Version = "" \/ di[1].Digest = ""
                    THEN AfterCase(state, E("Temporary"))
                 ELSE IF digestOnce[2] # Nil
                    THEN AfterCaseOf(state, E("Fatal"), digestOnce[2])
                 ELSE IF remote[2] # Nil
                    THEN AfterCaseOf(state, E("Fatal"), remote[2])
                 ELSE IF SameDigest(remote[1], digestOnce[1])
                    THEN AfterCase(stateDone, Nil)
                 ELSE AfterCase(state, Nil)
    /\ UNCHANGED <<outsideGo, dryRun, launched, created, Spot, SpotProbeDepth, id, dns, ctxErr, digestOnce, uploadOnce>>

\* Faulty variant of Restart: the worker is not awaited after the update.
RestartAtDescribeTags == stateDescribeTags

\* state = stateWaitReflowlet: where the loop resumes after an image update.
Restart == stateWaitReflowlet

\* uploadOnce before its first Do.
Fresh == [kind |-> "fresh", code |-> "", wrapped |-> FALSE]

\* uploadImage: the first call runs the upload and its error is memoized;
\* every later call returns the memoized error.
UpdateImage ==
    /\ InState(stateUpdateImage)
    /\ attempted' = state
    /\ IF ec2inst.PublicDnsName = NilString
          \* *i.ec2inst.PublicDnsName dereferences a nil pointer
          THEN /\ pc' = "panic"
               /\ UNCHANGED <<err, state, n, d, uploadOnce, opErr, tries, slept, passed,
                              callErr>>
       ELSE \E newErr, repoErr \in {Nil, Err("Other")},
               upErr \in {Nil, Err("Other")},
               instErr \in {Nil, Err("Net"), Err("Other")} :
              LET up == IF uploadOnce = Fresh THEN upErr ELSE uploadOnce
                  failed == \/ newErr # Nil
                            \/ repoErr # Nil
                            \/ up # Nil
                            \/ (instErr # Nil /\ ~Is("Net", instErr))
                  raw == IF newErr # Nil THEN newErr
                         ELSE IF repoErr # Nil THEN repoErr
                         ELSE IF up # Nil THEN up
                         ELSE instErr
              IN  /\ uploadOnce' = IF newErr # Nil \/ repoErr # Nil
                                      THEN uploadOnce ELSE up
                  /\ IF failed
                        THEN AfterCaseOf(state, E("Fatal"), raw)
                     ELSE \* state = stateWaitReflowlet; continue
                          /\ state' = Restart
                          /\ opErr' = err
                          /\ passed' = passed \cup {state}
                          /\ UNCHANGED <<err, n, d, pc, tries, slept, callErr>>
    /\ UNCHANGED <<outsideGo, dryRun, launched, created, Spot, SpotProbeDepth, ec2inst, id, dns, ctxErr, digestOnce>>

(***************************************************************************)
(* uploadImage, as the launch drivers of one process call it concurrently. *)
(* once.Task.Do runs its function under the task's mutex unless the task   *)
(* is done, records the error and marks the task done; every call returns  *)
(* the recorded error.                                                     *)
(***************************************************************************)
Drivers == 1..NumDrivers

\* A once.Task before its first Do; holder is the caller that holds its mutex.
NewTask == [done |-> FALSE, err |-> Nil, holder |-> 0]

\* No call has returned yet.
NoCall == [kind |-> "none", code |-> "", wrapped |-> FALSE]

\* Faulty variant of UploadTask: every driver has a task of its own.
UploadTaskOwn(self) == self

\* uploadOnce.Do: the task uploadImage runs under is the package's uploadOnce.
UploadTask(self) == 0

\* Do: a task that is done answers at once, otherwise the caller goes for
\* the mutex.
DoEnter(self) ==
    LET t == UploadTask(self)
    IN  /\ upPc[self] = "idle"
        /\ upCalls[self] < MaxCalls
        /\ upCalls' = [upCalls EXCEPT ![self] = @ + 1]
        /\ arrived' = [arrived EXCEPT
                          ![self] = @ \/ \E p \in Drivers : upPc[p] \in {"stat", "put"}]
        /\ IF once[t].done
              THEN /\ upRet' = [upRet EXCEPT ![self] = once[t].err]
                   /\ upPc' = upPc
              ELSE /\ upPc' = [upPc EXCEPT ![self] = "lock"]
                   /\ upRet' = upRet
        /\ UNCHANGED <<once, bodies, outsideOnce>>

\* Do: with the mutex, a task that is done by now answers, otherwise the
\* function runs.
DoLock(self) ==
    LET t == UploadTask(self)
    IN  /\ upPc[self] = "lock"
        /\ once[t].holder = 0
        /\ IF once[t].done
              THEN /\ upRet' = [upRet EXCEPT ![self] = once[t].err]
                   /\ upPc' = [upPc EXCEPT ![self] = "idle"]
                   /\ once' = once
              ELSE /\ once' = [once EXCEPT ![t].holder = self]
                   /\ upPc' = [upPc EXCEPT ![self] = "stat"]
                   /\ upRet' = upRet
        /\ UNCHANGED <<upCalls, arrived, bodies, outsideOnce>>

\* Do: the function returned e.
DoReturn(self, e) ==
    LET t == UploadTask(self)
    IN  /\ once' = [once EXCEPT ![t] = [done |-> TRUE, err |-> e, holder |-> 0]]
        /\ upRet' = [upRet EXCEPT ![self] = e]
        /\ upPc' = [upPc EXCEPT ![self] = "idle"]
        /\ bodies' = Append(bodies, e)
        /\ UNCHANGED <<upCalls, arrived, outsideOnce>>

\* The errors of the repository and of the embedded image.
UploadErrs == {Err("Other"), Err("Net")}

\* Lines 601-610: hasEmbedded, imageDigest and repo.Stat.
Stat(self) ==
    /\ upPc[self] = "stat"
    /\ \/ DoReturn(self, Err("NoEmbeddedImage"))
       \/ IF digestOnce[2] # Nil
             THEN DoReturn(self, digestOnce[2])
          ELSE \/ DoReturn(self, Nil)
               \/ /\ upPc' = [upPc EXCEPT ![self] = "put"]
                  /\ UNCHANGED <<once, upRet, upCalls, arrived, bodies, outsideOnce>>

\* Lines 611-625: EmbeddedLinuxImage, repo.Put and the comparison of digests.
Put(self) ==
    /\ upPc[self] = "put"
    /\ \E e \in {Nil} \cup UploadErrs : DoReturn(self, e)

uploadImage(self) ==
    \/ DoEnter(self)
    \/ DoLock(self)
    \/ Stat(self)
    \/ Put(self)

\* Lines 576-584: the loop condition fails.
Exit ==
    /\ pc = "loop"
    /\ ~(state < stateDone /\ ctxErr = Nil)
    /\ pc' = "returned"
    /\ err' = IF err # Nil THEN err ELSE ctxErr
    /\ UNCHANGED <<outsideGo, dryRun, launched, created, Spot, SpotProbeDepth, ec2inst, state, id, dns, n, d, ctxErr,
                   digestOnce, uploadOnce, attempted, opErr, tries, slept, passed,
                   dryRun, launched, created, callErr>>

\* The caller cancels the context.
Cancel ==
    /\ pc = "loop"
    /\ ctxErr = Nil
    /\ ctxErr' = Err("Canceled")
    /\ UNCHANGED <<outsideGo, dryRun, launched, created, Spot, SpotProbeDepth, err, ec2inst, state, id, dns, n, d, pc,
                   digestOnce, uploadOnce, attempted, opErr, tries, slept, passed,
                   dryRun, launched, created, callErr>>

(***************************************************************************)
(* The task database, taskdb/dynamodbtask.  An instant is a number of      *)
(* ticks; a time.Time is an instant together with the offset of its zone.  *)
(***************************************************************************)
\* timeLayout (RFC3339) writes whole seconds: the ticks in one second.
TicksPerSec == 2
\* The seconds in one calendar day.
SecsPerDay == 2

TicksPerDay == TicksPerSec * SecsPerDay

\* Zone offsets east of UTC, in ticks.
Zones == {0, TicksPerSec}

Instants == 0..(NumDays * TicksPerDay - 1)

Times == [inst : Instants, off : Zones]

\* (time.Time).UTC
UTC(t) == [t EXCEPT !.off = 0]

\* The clock reading of t in its zone, in ticks.
Local(t) == t.inst + t.off

\* t.Format(timeLayout): the second of the reading, and the zone.
FormatTime(t) == [sec |-> Local(t) \div TicksPerSec, off |-> t.off]

\* t.Format(dateLayout): the day of the reading.
FormatDate(t) == Local(t) \div TicksPerDay

\* date
date(t) == [inst |-> (Local(t) \div TicksPerDay) * TicksPerDay, off |-> 0]

RECURSIVE datesFrom(_, _)
datesFrom(beg, end) ==
    IF end.inst < beg.inst THEN <<>>
    ELSE <<beg>> \o datesFrom([beg EXCEPT !.inst = @ + TicksPerDay], end)

\* dates
dates(beg, end) == datesFrom(date(beg), date(end))

\* DynamoDB's order on two strings written with timeLayout.
StringGreater(a, b) == a.sec > b.sec \/ (a.sec = b.sec /\ a.off > b.off)

run == "run"

task == "task"

\* The IDs the callers use for runs and for tasks.
RunIds == {"run1"}

TaskIds == {"task1"}

Ids == RunIds \cup TaskIds

\* The times asked for: Since is a time in UTC.
SinceTimes == { t \in Times : t.off = 0 }

\* An attribute that an item does not have.
NoTimeAttr == [sec |-> -1, off |-> 0]

NoDateAttr == -1

\* An item without RunID.
NoRunID == ""

\* No item: ID tells whether the item exists.  Type "run" stands for the
\* attributes CreateRun writes, FlowID for those CreateTask writes.
NoItem ==
    [ID |-> FALSE, Type |-> "", FlowID |-> FALSE, ResultID |-> FALSE,
     Stdout |-> FALSE, Keepalive |-> NoTimeAttr, Date |-> NoDateAttr,
     RunID |-> NoRunID, StartTime |-> NoTimeAttr]

\* time.Now().UTC().Format(timeLayout)
StartTimeNow == FormatTime(UTC([inst |-> wall, off |-> 0]))

\* UpdateItem works on the item of the key, which it creates if need be.
ItemOf(key) == IF rows[key].ID THEN rows[key] ELSE [NoItem EXCEPT !.ID = TRUE]

\* CreateRun: PutItem replaces the item.
CreateRun(key) ==
    /\ \E ok \in BOOLEAN :
          IF ok
             THEN /\ rows' = [rows EXCEPT ![key] = [NoItem EXCEPT !.ID = TRUE, !.Type = run,
                                                              !.StartTime = StartTimeNow]]
                  /\ kaHist' = [kaHist EXCEPT ![key] = -1]
          ELSE UNCHANGED <<rows, kaHist>>
    /\ UNCHANGED <<wall, dbRet, outsideDb>>

\* CreateTask: PutItem replaces the item.  runid is written as it is given.
CreateTask(key, runid) ==
    /\ \E ok \in BOOLEAN :
          IF ok
             THEN /\ rows' = [rows EXCEPT
                               ![key] = [NoItem EXCEPT !.ID = TRUE, !.Type = task,
                                                       !.FlowID = TRUE,
                                                       !.RunID = runid,
                                                       !.StartTime = StartTimeNow]]
                  /\ kaHist' = [kaHist EXCEPT ![key] = -1]
          ELSE UNCHANGED <<rows, kaHist>>
    /\ UNCHANGED <<wall, dbRet, outsideDb>>

\* SetTaskResult: SET ResultID
SetTaskResult(key) ==
    /\ \E ok \in BOOLEAN :
          IF ok THEN rows' = [rows EXCEPT ![key] = [ItemOf(key) EXCEPT !.ResultID = TRUE]]
          ELSE UNCHANGED rows
    /\ UNCHANGED <<wall, kaHist, dbRet, outsideDb>>

\* SetTaskAttrs: SET Stdout, Stderr, Inspect
SetTaskAttrs(key) ==
    /\ \E ok \in BOOLEAN :
          IF ok THEN rows' = [rows EXCEPT ![key] = [ItemOf(key) EXCEPT !.Stdout = TRUE]]
          ELSE UNCHANGED rows
    /\ UNCHANGED <<wall, kaHist, dbRet, outsideDb>>

\* Faulty variant of KeepaliveUpdate: the date bucket is not written.
KeepaliveUpdateNoDate(item, keepalive) ==
    [item EXCEPT !.Keepalive = FormatTime(UTC(keepalive))]

\* The update expression of Keepalive: SET Keepalive = :ka, #Date = :date
KeepaliveUpdate(item, keepalive) ==
    [item EXCEPT !.Keepalive = FormatTime(UTC(keepalive)),
                 !.Date = FormatDate(UTC(keepalive))]

Keepalive(key, keepalive) ==
    /\ \E ok \in BOOLEAN :
          IF ok
             THEN /\ rows' = [rows EXCEPT ![key] = KeepaliveUpdate(ItemOf(key), keepalive)]
                  /\ kaHist' = [kaHist EXCEPT ![key] = keepalive.inst]
          ELSE UNCHANGED <<rows, kaHist>>
    /\ UNCHANGED <<wall, dbRet, outsideDb>>

\* A query of Date-Keepalive-index: the items that have both attributes,
\* with the date q.date, a Keepalive above q.ka and, with a filter, its Type.
Query(q) ==
    { key \in Ids :
        /\ rows[key].ID
        /\ rows[key].Date # NoDateAttr
        /\ rows[key].Keepalive # NoTimeAttr
        /\ rows[key].Date = q.date
        /\ StringGreater(rows[key].Keepalive, q.ka)
        /\ q.type # "" => rows[key].Type = q.type }

\* buildQueries for a query by time: one query per day from date(since) to
\* date(now).  Only a query for runs filters on Type.
buildQueries(Since, typ) ==
    LET since == UTC(Since)
        ds == dates(since, UTC([inst |-> wall, off |-> 0]))
    IN  [i \in 1..Len(ds) |->
            [date |-> FormatDate(ds[i]), ka |-> FormatTime(since),
             type |-> IF typ = run THEN run ELSE ""]]

\* What a call for a query by time leaves in dbRet besides its result: the
\* items of its type whose last Keepalive was at or after Since, and the
\* items its queries match.
Asked(op, Since, typ) ==
    LET queries == buildQueries(Since, typ)
    IN  [op |-> op,
         k |-> Len(queries),
         expected |-> { key \in Ids : /\ rows[key].ID
                                      /\ rows[key].Type = typ
                                      /\ kaHist[key] # -1
                                      /\ Since.inst <= kaHist[key] },
         matching |-> UNION { Query(queries[i]) : i \in 1..Len(queries) }]

NoRows == [key \in Ids |-> 0]

NoDbRet ==
    [op |-> "none", k |-> 0, expected |-> {}, matching |-> {},
     issued |-> 0, rows |-> NoRows, outcome |-> "none"]

Returned(asked, issued, result, outcome) ==
    dbRet' = [op |-> asked.op, k |-> asked.k, expected |-> asked.expected,
              matching |-> asked.matching, issued |-> issued, rows |-> result,
              outcome |-> outcome]

\* Runs, for a query with Since and neither ID nor RunID.  Without a day to
\* query, the one query built has no key condition and the database
\* refuses it.
Runs(Since) ==
    LET queries == buildQueries(Since, run)
        asked == Asked("Runs", Since, run)
    IN  /\ IF Len(queries) = 0
              THEN Returned(asked, 1, NoRows, "err")
           ELSE \E ok \in BOOLEAN :
                  IF ~ok THEN Returned(asked, Len(queries), NoRows, "err")
                  ELSE LET responses == [i \in 1..Len(queries) |-> Query(queries[i])]
                       IN  Returned(asked, Len(queries),
                                [key \in Ids |->
                                    Cardinality({ i \in 1..Len(queries) :
                                                    key \in responses[i] })],
                                "ok")
        /\ UNCHANGED <<rows, wall, kaHist, outsideDb>>

\* Tasks, for a query with Since and neither ID nor RunID.  Each of the
\* len(queries) functions of traverse.Each runs every query and keeps the
\* response of the last one in responses[i].  An item without FlowID makes
\* *it[colFlowID].S dereference nil.
Tasks(Since) ==
    LET queries == buildQueries(Since, task)
        asked == Asked("Tasks", Since, task)
        last == Len(queries)
    IN  /\ IF Len(queries) = 0
              THEN Returned(asked, 1, NoRows, "err")
           ELSE \E ok \in BOOLEAN :
                  IF ~ok THEN Returned(asked, Len(queries) * Len(queries), NoRows, "err")
                  ELSE LET responses == [i \in 1..Len(queries) |-> Query(queries[last])]
                       IN  IF \E i \in 1..Len(queries) :
                                 \E key \in responses[i] : ~rows[key].FlowID
                              THEN Returned(asked, Len(queries) * Len(queries),
                                            NoRows, "panic")
                           ELSE Returned(asked, Len(queries) * Len(queries),
                                    [key \in Ids |->
                                        Cardinality({ i \in 1..Len(queries) :
                                                        key \in responses[i] })],
                                    "ok")
        /\ UNCHANGED <<rows, wall, kaHist, outsideDb>>

\* A day passes.
NextDay ==
    /\ wall + TicksPerDay \in Instants
    /\ wall' = wall + TicksPerDay
    /\ UNCHANGED <<rows, kaHist, dbRet, outsideDb>>

\* An empty table.
NoTaskDB ==
    /\ rows = [key \in Ids |-> NoItem]
    /\ wall = 0
    /\ kaHist = [key \in Ids |-> -1]
    /\ dbRet = NoDbRet

(***************************************************************************)
(* The calls of the task database that are outstanding.  Any number of     *)
(* goroutines call Runs at the same time; they are counted, not named.     *)
(***************************************************************************)
\* t.limiter.Release(32)
limiterTokens == 32

\* Runs up to traverse.Each: one function per query is started.  Without a
\* day to query there is still the one query without key condition.
RunsBegin(Since) ==
    LET queries == buildQueries(Since, run)
        k == IF Len(queries) = 0 THEN 1 ELSE Len(queries)
    IN  /\ pending + inflight + k <= MaxInflight
        /\ pending' = pending + k
        /\ UNCHANGED <<tokens, inflight, outsideLim>>

\* A function of traverse.Each calls t.DB.QueryWithContext.  No token of
\* the limiter is acquired: TaskDB never calls t.limiter.Acquire.
QueryCall ==
    /\ pending > 0
    /\ pending' = pending - 1
    /\ inflight' = inflight + 1
    /\ UNCHANGED <<tokens, outsideLim>>

\* A call to the database returns.
QueryReturn ==
    /\ inflight > 0
    /\ inflight' = inflight - 1
    /\ UNCHANGED <<tokens, pending, outsideLim>>

\* TaskDB.Init has run and no call is outstanding.
NoCalls ==
    /\ tokens = limiterTokens
    /\ pending = 0
    /\ inflight = 0

(***************************************************************************)
(* The reflowlet, reflowlet/reflowlet.go: the idle loop of ListenAndServe  *)
(* and the handler of /v1/execimage.  Time is in minutes.                  *)
(***************************************************************************)
\* period = time.Minute
period == 1
\* expiry = 10 * time.Minute
expiry == 10

Min(a, b) == IF a < b THEN a ELSE b

\* (*local.Pool).StopIfIdleFor(dur): whether the pool has been idle for dur;
\* the pool is stopped when it has.
StopIfIdleFor(dur) == ~busy /\ idleFor >= dur

\* The images the repository can hold.
Images == {"img1", "img2"}

NoCheck == [made |-> FALSE, uptime |-> 0, since |-> -1, idle |-> FALSE]

\* fetched: repo.Get was called; installed: InstallImageReflowlet replaced
\* the process.
NoPost == [method |-> "", idle |-> FALSE, reply |-> "", fetched |-> FALSE,
           installed |-> FALSE, was |-> "", is |-> ""]

\* Faulty variant of FirstSleep: the loop starts with the sleep of a period.
FirstSleepPeriod == period

\* time.Sleep(expiry) before the loop
FirstSleep == expiry

\* A minute passes.
Minute ==
    /\ proc = "running"
    /\ uptime' = Min(uptime + 1, expiry)
    /\ idleFor' = IF busy THEN 0 ELSE Min(idleFor + 1, expiry)
    /\ timer' = IF timer > 0 THEN timer - 1 ELSE 0
    /\ sinceCheck' = IF sinceCheck = -1 THEN -1 ELSE Min(sinceCheck + 1, period)
    /\ UNCHANGED <<EC2Cluster, busy, stopped, proc, image, lastCheck, post, outsideLet>>

\* The pool is given work; a stopped pool takes none.
WorkArrives ==
    /\ proc = "running"
    /\ ~busy
    /\ ~stopped
    /\ busy' = TRUE
    /\ idleFor' = 0
    /\ UNCHANGED <<EC2Cluster, stopped, proc, timer, image, uptime, sinceCheck,
                   lastCheck, post, outsideLet>>

\* The last work of the pool ends.
WorkDone ==
    /\ proc = "running"
    /\ busy
    /\ busy' = FALSE
    /\ idleFor' = 0
    /\ UNCHANGED <<EC2Cluster, stopped, proc, timer, image, uptime, sinceCheck,
                   lastCheck, post, outsideLet>>

\* Faulty variant of IdleExits: the loop exits whatever the check reports.
IdleExitsAlways(isIdle) == TRUE

\* if p.StopIfIdleFor(expiry) { log.Fatalf(...) }
IdleExits(isIdle) == isIdle

\* One round of the idle loop, when its sleep is over: the check, then
\* log.Fatalf or the sleep of a period.
IdleCheck ==
    /\ proc = "running"
    /\ EC2Cluster
    /\ timer = 0
    /\ LET isIdle == StopIfIdleFor(expiry)
       IN  /\ lastCheck' = [made |-> TRUE, uptime |-> uptime, since |-> sinceCheck,
                            idle |-> isIdle]
           /\ stopped' = (stopped \/ isIdle)
           /\ sinceCheck' = 0
           /\ IF IdleExits(isIdle)
                 THEN proc' = "exited" /\ timer' = timer
              ELSE proc' = proc /\ timer' = period
    /\ UNCHANGED <<EC2Cluster, busy, idleFor, image, uptime, post, outsideLet>>

\* GET /v1/execimage: the digest of the image, or the error of ImageDigest.
ExecImageGet ==
    /\ proc = "running"
    /\ \E ok \in BOOLEAN :
          post' = [NoPost EXCEPT !.method = "GET",
                                 !.reply = IF ok THEN image ELSE "error",
                                 !.was = image, !.is = image]
    /\ UNCHANGED <<EC2Cluster, busy, idleFor, stopped, proc, timer, image, uptime,
                   sinceCheck, lastCheck, outsideLet>>

\* Faulty variant of Refuses: the image is replaced whether idle or not.
RefusesNever(isStopped) == FALSE

\* if !stopped { call.Error(...); return }
Refuses(isStopped) == ~isStopped

\* POST /v1/execimage with the digest dg in its body, which may not parse.
\* InstallImageReflowlet returns an error, or re-executes the process as
\* the new image and does not return.
ExecImagePost(dg) ==
    /\ proc = "running"
    /\ LET isStopped == StopIfIdleFor(0)
           done(reply, fetched, installed) ==
               /\ image' = IF installed THEN dg ELSE image
               /\ proc' = IF installed THEN "replaced" ELSE proc
               /\ post' = [method |-> "POST", idle |-> isStopped, reply |-> reply,
                           fetched |-> fetched, installed |-> installed,
                           was |-> image, is |-> IF installed THEN dg ELSE image]
       IN  /\ stopped' = (stopped \/ isStopped)
           /\ IF Refuses(isStopped)
                 THEN done("error", FALSE, FALSE)
              ELSE IF dg \notin Images
                 \* call.Unmarshal fails
                 THEN done("error", FALSE, FALSE)
              ELSE \E getOk, installOk \in BOOLEAN :
                     IF ~getOk THEN done("error", TRUE, FALSE)
                     ELSE IF ~installOk THEN done("error", TRUE, FALSE)
                     ELSE done("", TRUE, TRUE)
    /\ UNCHANGED <<EC2Cluster, busy, idleFor, timer, uptime, sinceCheck, lastCheck,
                   outsideLet>>

\* The reflowlet's variables after p.Start(), with or without the idle loop.
ReflowletStarted(cluster) ==
    /\ EC2Cluster = cluster
    /\ busy = FALSE
    /\ idleFor = 0
    /\ stopped = FALSE
    /\ proc = "running"
    /\ timer = FirstSleep
    /\ image = "img1"
    /\ uptime = 0
    /\ sinceCheck = -1
    /\ lastCheck = NoCheck
    /\ post = NoPost

NoReflowlet == ReflowletStarted(FALSE)

(***************************************************************************)
(* The blob transfer exec, local.blobExec, as local/blob_test.go drives    *)
(* it.  A key or a path is a sequence of characters.                       *)
(***************************************************************************)
intern == "intern"

extern == "extern"

\* The path of the only entry of a single-file fileset.
Dot == <<".">>

\* The contents that files have.
Contents == {"x", "y"}

\* reflow.Digester.FromString
Digest(contents) == <<"sha256", contents>>

\* client.SetFile(key, content, sha256): an object, which carries the
\* sha256 of its content as metadata or does not.
Objects == [content : Contents, sha : BOOLEAN]

\* The keys of the objects that the bucket holds before an intern.
BlobKeys == {<<"a">>, <<"a", "a">>, <<"a", "b">>}

\* strings.HasPrefix
HasPrefix(key, prefix) ==
    Len(prefix) <= Len(key) /\ SubSeq(key, 1, Len(prefix)) = prefix

\* Faulty variant of TrimPrefix: the key is kept whole.
TrimNothing(key, prefix) == key

\* strings.TrimPrefix, for a key that has the prefix
TrimPrefix(key, prefix) == SubSeq(key, Len(prefix) + 1, Len(key))

\* The entries of an intern, a path and the key it is read from: the one
\* object the URL names, or else the objects listed under the URL.
Entries ==
    IF URL \in DOMAIN blob THEN {[path |-> Dot, key |-> URL]}
    ELSE { [path |-> TrimPrefix(key, URL), key |-> key] :
              key \in { k \in DOMAIN blob : HasPrefix(k, URL) } }

\* Faulty variant of Skips: every object is fetched.
SkipsNever(object) == FALSE

\* Whether intern does without fetching an object: the digest it is to
\* store is known before the fetch and the repository has it.
Skips(object) == object.sha /\ Digest(object.content) \in repository

\* Intern resolves the URL.
InternList ==
    /\ xpc = "init"
    /\ transferType = intern
    /\ todo' = Entries
    /\ xpc' = "transfer"
    /\ UNCHANGED <<transferType, URL, Args, blob, repository, staging, fileset, gets,
                   outsideBlob>>

\* Intern transfers one entry: without a fetch, or by a GetObject into the
\* staging repository.  A fetch that fails fails the exec, which discards
\* the staging repository.
InternFile(e) ==
    /\ xpc = "transfer"
    /\ transferType = intern
    /\ e \in todo
    /\ LET object == blob[e.key]
           file == [path |-> e.path, id |-> Digest(object.content)]
       IN  IF Skips(object)
              THEN /\ fileset' = fileset \cup {file}
                   /\ todo' = todo \ {e}
                   /\ UNCHANGED <<staging, xpc, gets>>
           ELSE /\ gets' = gets \cup {[key |-> e.key, sha |-> object.sha,
                                       had |-> Digest(object.content) \in repository]}
                /\ \E ok \in BOOLEAN :
                      IF ok
                         THEN /\ staging' = staging \cup {Digest(object.content)}
                              /\ fileset' = fileset \cup {file}
                              /\ todo' = todo \ {e}
                              /\ xpc' = xpc
                      ELSE /\ staging' = {}
                           /\ fileset' = {}
                           /\ todo' = {}
                           /\ xpc' = "error"
    /\ UNCHANGED <<transferType, URL, Args, blob, repository, outsideBlob>>

\* Faulty variant of Dest: the path is always joined to the URL.
DestJoined(path) == URL \o path

\* The key extern writes the entry of a path to.
Dest(path) == IF { a.path : a \in Args } = {Dot} THEN URL ELSE URL \o path

\* Extern takes its argument.
ExternList ==
    /\ xpc = "init"
    /\ transferType = extern
    /\ todo' = Args
    /\ xpc' = "transfer"
    /\ UNCHANGED <<transferType, URL, Args, blob, repository, staging, fileset, gets,
                   outsideBlob>>

\* Extern transfers one entry from the repository to the bucket.  A file
\* that the repository lacks, or a write that fails, fails the exec.
ExternFile(e) ==
    /\ xpc = "transfer"
    /\ transferType = extern
    /\ e \in todo
    /\ \E ok \in BOOLEAN :
          IF ok /\ e.id \in repository
             THEN /\ blob' = [k \in DOMAIN blob \cup {Dest(e.path)} |->
                                IF k = Dest(e.path)
                                   THEN [content |-> e.id[2], sha |-> TRUE]
                                ELSE blob[k]]
                  /\ todo' = todo \ {e}
                  /\ xpc' = xpc
          ELSE /\ todo' = {}
               /\ xpc' = "error"
               /\ blob' = blob
    /\ UNCHANGED <<transferType, URL, Args, repository, staging, fileset, gets,
                   outsideBlob>>

\* Every entry is transferred: the exec completes, an extern with its
\* argument as result.
Complete ==
    /\ xpc = "transfer"
    /\ todo = {}
    /\ xpc' = "complete"
    /\ fileset' = IF transferType = extern THEN Args ELSE fileset
    /\ UNCHANGED <<transferType, URL, Args, blob, repository, staging, todo, gets,
                   outsideBlob>>

\* Promote moves the staging repository into the repository.
Promote ==
    /\ xpc = "complete"
    /\ transferType = intern
    /\ repository' = repository \cup staging
    /\ staging' = {}
    /\ xpc' = "promoted"
    /\ UNCHANGED <<transferType, URL, Args, blob, todo, fileset, gets, outsideBlob>>

\* newS3Test: an exec that has not run.
NewExec ==
    /\ staging = {}
    /\ todo = {}
    /\ fileset = {}
    /\ gets = {}

\* No exec.
NoBlob ==
    /\ transferType = ""
    /\ URL = <<>>
    /\ Args = {}
    /\ blob = <<>>
    /\ repository = {}
    /\ xpc = "idle"
    /\ NewExec

(***************************************************************************)
(* The rate exporters of local/blob.go, as TestRateWatch drives them.      *)
(***************************************************************************)
Exporters == 1..NumExporters

\* newRateExporter
NewRateExporter == [total |-> 0, last |-> 0, pub |-> 0, busy |-> FALSE]

\* The rate of an exporter that has moved total bytes in elapsed ticks.
RateOf(total, elapsed) == total \div elapsed

\* (*rateExporter).rate: the rate the exporter computed last.
rate(i) == rws[i].last

\* Faulty variant of Contribution: the new rate is added whole.
ContributionWhole(new, old) == new

\* What an Add adds to the exported counter: the change of the rate.
Contribution(new, old) == new - old

\* Add up to the update of the exported counter: the exporter, under its
\* mutex, counts the bytes and computes its rate.
AddBegin(i, bytes, elapsed) ==
    /\ adds < MaxAdds
    /\ ~rws[i].busy
    /\ adds' = adds + 1
    /\ rws' = [rws EXCEPT ![i] = [total |-> @.total + bytes,
                                  last |-> RateOf(@.total + bytes, elapsed),
                                  pub |-> @.last,
                                  busy |-> TRUE]]
    /\ UNCHANGED <<exp, outsideRate>>

\* The rest of Add: the atomic addition to the exported counter.
AddEnd(i) ==
    /\ rws[i].busy
    /\ exp' = exp + Contribution(rws[i].last, rws[i].pub)
    /\ rws' = [rws EXCEPT ![i].busy = FALSE, ![i].pub = rws[i].last]
    /\ UNCHANGED <<adds, outsideRate>>

\* expvar.NewInt and the exporters made for it.
NewExporters ==
    /\ exp = 0
    /\ rws = [i \in Exporters |-> NewRateExporter]
    /\ adds = 0

(***************************************************************************)
(* The bring-up of the reflowlet, Server.ListenAndServe, up to the         *)
(* serving of /v1/config.                                                  *)
(***************************************************************************)
Versions == {"v1", "v2"}

NoTags == [version |-> "", digest |-> ""]

AllHandlers == {"/", "/v1/config", "/v1/execimage"}

\* ListenAndServe returns e.
LsReturn(e) ==
    /\ lsPc' = "returned"
    /\ lsErr' = e

\* Lines 135-188: the config file, Schema.Make, the docker client and the
\* lookups of the session, the authority, the credentials and the tool.
MakeConfig ==
    /\ lsPc = "config"
    /\ \E e \in {"", "config"} \cup (IF configFlag # "" THEN {"config file"} ELSE {}) :
          IF e = "" THEN lsPc' = "setTags" /\ lsErr' = lsErr
          ELSE LsReturn(e)
    /\ UNCHANGED <<reflowletVersion, configFlag, Insecure, tags, tagWrite, handlers, served,
                   letVars, outsideBoot>>

\* Faulty variant of TagsFail: the error of setTags is dropped.
TagsFailNever(e) == FALSE

\* if err := s.setTags(); err != nil { return ... }
TagsFail(e) == e # ""

\* setTags and its call: outside a cluster nothing is written; in a cluster
\* the instance id, the image digest and the session are looked up and
\* CreateTags writes the two tags, and each of these can fail.
SetTags ==
    /\ lsPc = "setTags"
    /\ IF ~EC2Cluster
          THEN /\ lsPc' = "start"
               /\ UNCHANGED <<tags, tagWrite, lsErr>>
       ELSE \E e \in {"", "lookup", "CreateTags"} :
               /\ tags' = IF e = ""
                             THEN [version |-> reflowletVersion, digest |-> image]
                          ELSE tags
               /\ tagWrite' = IF e = "" THEN "ok"
                              ELSE IF e = "CreateTags" THEN "failed"
                              ELSE tagWrite
               /\ IF TagsFail(e) THEN LsReturn("set tags")
                  ELSE lsPc' = "start" /\ lsErr' = lsErr
    /\ UNCHANGED <<reflowletVersion, configFlag, Insecure, handlers, served, letVars,
                   outsideBoot>>

\* Lines 200-234: the pool is built and started; in a cluster the idle loop
\* is started with it.
PoolStart ==
    /\ lsPc = "start"
    /\ \E ok \in BOOLEAN :
          IF ok THEN /\ lsPc' = "handle"
                     /\ proc' = "running"
                     /\ lsErr' = lsErr
          ELSE LsReturn("start") /\ proc' = proc
    /\ UNCHANGED <<reflowletVersion, configFlag, Insecure, tags, tagWrite, handlers, served,
                   EC2Cluster, busy, idleFor, stopped, timer, image, uptime, sinceCheck,
                   lastCheck, post, outsideBoot>>

\* Lines 243-255: the three http.Handle calls, with newConfigNode and the
\* lookup of the repository between them.
Handle ==
    /\ lsPc = "handle"
    /\ proc = "running"
    /\ \E cfgOk, repoOk \in BOOLEAN :
          IF ~cfgOk THEN handlers' = {"/"} /\ LsReturn("read config")
          ELSE IF ~repoOk THEN handlers' = {"/", "/v1/config"} /\ LsReturn("repo")
          ELSE /\ handlers' = AllHandlers
               /\ lsPc' = "listen"
               /\ lsErr' = lsErr
    /\ UNCHANGED <<reflowletVersion, configFlag, Insecure, tags, tagWrite, served, letVars,
                   outsideBoot>>

\* Lines 256-266: server.ListenAndServe or ListenAndServeTLS, which returns
\* when it cannot listen.
Listen ==
    /\ lsPc = "listen"
    /\ proc = "running"
    /\ \E ok \in BOOLEAN :
          IF ok THEN lsPc' = "serving" /\ lsErr' = lsErr
          ELSE LsReturn(IF Insecure THEN "listen" ELSE "listen tls")
    /\ UNCHANGED <<reflowletVersion, configFlag, Insecure, tags, tagWrite, handlers, served,
                   letVars, outsideBoot>>

\* The handler newConfigNode returns answers a GET of /v1/config.
ConfigRequest ==
    /\ lsPc = "serving"
    /\ proc = "running"
    /\ "/v1/config" \in handlers
    /\ served < MaxRequests
    /\ served' = served + 1
    /\ UNCHANGED <<reflowletVersion, configFlag, Insecure, lsPc, tags, tagWrite, handlers,
                   lsErr, letVars, outsideBoot>>

\* ListenAndServe has not been called.
NoBoot ==
    /\ reflowletVersion = "v1"
    /\ configFlag = ""
    /\ Insecure = FALSE
    /\ lsPc = "idle"
    /\ tags = NoTags
    /\ tagWrite = "none"
    /\ handlers = {}
    /\ served = 0
    /\ lsErr = ""

(***************************************************************************)
(* The Exec of the test executor, test/testutil/executor.go: goroutines    *)
(* that set its result with Ok or Error and goroutines that read it.       *)
(***************************************************************************)
Readers == 1..NumReaders

Setters == 1..NumSetters

Results == {"res1", "res2"}

\* The callers of Error that are blocked in e.err <- err.
ErrSenders == { c \in Setters : xPc[c] = "errsend" }

\* make(chan ExecResult, 1)
Capacity1 == 1

\* Whether a send into resultc can proceed.
HasRoom == Len(resultc) < Capacity1

\* Ok, its first select: with a caller of Error waiting, its error is
\* received and Ok panics.
OkCheck(c, res) ==
    /\ crashed = ""
    /\ xPc[c] = "idle"
    /\ IF ErrSenders # {}
          THEN /\ \E w \in ErrSenders : xPc' = [xPc EXCEPT ![w] = "idle"]
               /\ crashed' = "error defined"
               /\ xVal' = xVal
       ELSE /\ xPc' = [xPc EXCEPT ![c] = "send"]
            /\ xVal' = [xVal EXCEPT ![c] = res]
            /\ crashed' = crashed
    /\ UNCHANGED <<resultc, rdPc, rdVal, rdRet, stored, outsideExec>>

\* Ok, its second select: the result is sent if resultc has room, otherwise
\* Ok panics.
OkSend(c) ==
    /\ crashed = ""
    /\ xPc[c] = "send"
    /\ IF HasRoom
          THEN /\ resultc' = Append(resultc, xVal[c])
               /\ stored' = Append(stored, xVal[c])
               /\ xPc' = [xPc EXCEPT ![c] = "idle"]
               /\ crashed' = crashed
       ELSE /\ crashed' = "result already set"
            /\ UNCHANGED <<resultc, stored, xPc>>
    /\ UNCHANGED <<xVal, rdPc, rdVal, rdRet, outsideExec>>

\* Error: a result in resultc is received and Error panics; otherwise the
\* caller blocks in the send on e.err.
ErrorCall(c) ==
    /\ crashed = ""
    /\ xPc[c] = "idle"
    /\ IF resultc # <<>>
          THEN /\ resultc' = Tail(resultc)
               /\ crashed' = "result already set"
               /\ xPc' = xPc
       ELSE /\ xPc' = [xPc EXCEPT ![c] = "errsend"]
            /\ UNCHANGED <<resultc, crashed>>
    /\ UNCHANGED <<xVal, rdPc, rdVal, rdRet, stored, outsideExec>>

\* result, its select: a result is received from resultc, or an error from
\* a caller of Error, or the context is done.
ResultSelect(r) ==
    /\ crashed = ""
    /\ rdPc[r] = "idle"
    /\ \/ /\ resultc # <<>>
          /\ resultc' = Tail(resultc)
          /\ rdVal' = [rdVal EXCEPT ![r] = Head(resultc)]
          /\ rdPc' = [rdPc EXCEPT ![r] = "putback"]
          /\ UNCHANGED <<xPc, rdRet>>
       \/ /\ \E w \in ErrSenders : xPc' = [xPc EXCEPT ![w] = "idle"]
          /\ rdRet' = [rdRet EXCEPT ![r] = "error"]
          /\ UNCHANGED <<resultc, rdVal, rdPc>>
       \/ /\ rdRet' = [rdRet EXCEPT ![r] = "ctx"]
          /\ UNCHANGED <<resultc, xPc, rdVal, rdPc>>
    /\ UNCHANGED <<xVal, stored, crashed, outsideExec>>

\* result: e.resultc <- result, and the return of the result.
ResultPutBack(r) ==
    /\ crashed = ""
    /\ rdPc[r] = "putback"
    /\ HasRoom
    /\ resultc' = Append(resultc, rdVal[r])
    /\ rdRet' = [rdRet EXCEPT ![r] = rdVal[r]]
    /\ rdPc' = [rdPc EXCEPT ![r] = "idle"]
    /\ UNCHANGED <<xPc, xVal, rdVal, stored, crashed, outsideExec>>

\* newExec: both channels are empty and nobody has called.
NoExec ==
    /\ resultc = <<>>
    /\ xPc = [c \in Setters |-> "idle"]
    /\ xVal = [c \in Setters |-> ""]
    /\ rdPc = [r \in Readers |-> "idle"]
    /\ rdVal = [r \in Readers |-> ""]
    /\ rdRet = [r \in Readers |-> ""]
    /\ stored = <<>>
    /\ crashed = ""

NoLast ==
    /\ NoBoot
    /\ NoExec

NoMore ==
    /\ NoCalls
    /\ NoReflowlet
    /\ NoBlob
    /\ NewExporters
    /\ NoLast

\* No uploadImage call has been made.
NoUpload ==
    /\ once = [t \in 0..NumDrivers |-> NewTask]
    /\ upPc = [p \in Drivers |-> "idle"]
    /\ upRet = [p \in Drivers |-> NoCall]
    /\ upCalls = [p \in Drivers |-> 0]
    /\ arrived = [p \in Drivers |-> FALSE]
    /\ bodies = <<>>

\* The driver's variables where no launch runs; dg is what imageDigest()
\* memoizes.
NoLaunchWith(dg) ==
    /\ Spot = FALSE
    /\ SpotProbeDepth = 0
    /\ err = Nil
    /\ ec2inst = NilInstance
    /\ state = stateCapacity
    /\ id = ""
    /\ dns = ""
    /\ n = 0
    /\ d = firstDelay
    /\ pc = "idle"
    /\ ctxErr = Nil
    /\ digestOnce = dg
    /\ uploadOnce = Fresh
    /\ attempted = -1
    /\ opErr = Nil
    /\ tries = 0
    /\ slept = <<>>
    /\ passed = {}
    /\ dryRun = NoDryRun
    /\ launched = FALSE
    /\ created = 0
    /\ callErr = Nil

NoLaunch == NoLaunchWith(<<"D2", Nil>>)

\* A new instance, as Go finds it.
InitGo ==
    /\ configs = <<>>
    /\ unavailable = [t \in {} |-> 0]
    /\ now = 0
    /\ ret = NoRet
    /\ marked = NoneMarked
    /\ Spot \in BOOLEAN
    /\ SpotProbeDepth \in {0, 20}
    /\ err = Nil
    /\ ec2inst = NilInstance
    /\ state = stateCapacity
    /\ id = ""
    /\ dns = ""
    /\ n = 0
    /\ d = firstDelay
    /\ pc = "loop"
    /\ ctxErr = Nil
    /\ digestOnce \in {<<"D2", Nil>>, <<"", Err("Other")>>}
    /\ uploadOnce = Fresh
    /\ attempted = -1
    /\ opErr = Nil
    /\ tries = 0
    /\ slept = <<>>
    /\ passed = {}
    /\ dryRun = NoDryRun
    /\ launched = FALSE
    /\ created = 0
    /\ callErr = Nil
    /\ NoUpload
    /\ NoTaskDB
    /\ NoMore

\* One iteration of the loop of Go.
Iteration ==
    \/ Capacity
    \/ Launch
    \/ Tag
    \/ WaitInstance
    \/ DescribeDns
    \/ WaitReflowlet
    \/ DescribeTags
    \/ UpdateImage

NextGo ==
    \/ Iteration
    \/ Exit
    \/ Cancel

\* One run of Go.
Spec == InitGo /\ [][NextGo]_vars

\* One run of Go where the loop goes on: every call of an iteration returns,
\* so an iteration that can run does, and so does the return.
FairGo == Spec /\ WF_vars(Iteration) /\ WF_vars(Exit)

InitUpload ==
    /\ configs = <<>>
    /\ unavailable = [t \in {} |-> 0]
    /\ now = 0
    /\ ret = NoRet
    /\ marked = NoneMarked
    /\ \E dg \in {<<"D2", Nil>>, <<"", Err("Other")>>} : NoLaunchWith(dg)
    /\ NoUpload
    /\ NoTaskDB
    /\ NoMore

NextUpload == \E self \in Drivers : uploadImage(self)

\* Concurrent uploads of the worker image.
SpecUpload == InitUpload /\ [][NextUpload]_vars

InitTaskDB ==
    /\ configs = <<>>
    /\ unavailable = [t \in {} |-> 0]
    /\ now = 0
    /\ ret = NoRet
    /\ marked = NoneMarked
    /\ NoLaunch
    /\ NoUpload
    /\ NoTaskDB
    /\ NoMore

NextTaskDB ==
    \/ \E key \in RunIds : CreateRun(key)
    \/ \E key \in TaskIds, runid \in RunIds : CreateTask(key, runid)
    \/ \E key \in TaskIds : SetTaskResult(key)
    \/ \E key \in TaskIds : SetTaskAttrs(key)
    \/ \E key \in Ids, keepalive \in Times : Keepalive(key, keepalive)
    \/ NextDay

\* The writes of the task database, in any order and as days pass, on a
\* table that starts empty.
SpecTaskDB == InitTaskDB /\ [][NextTaskDB]_vars

\* A table where CreateRun and CreateTask have written one run and one task.
InitQuery ==
    /\ configs = <<>>
    /\ unavailable = [t \in {} |-> 0]
    /\ now = 0
    /\ ret = NoRet
    /\ marked = NoneMarked
    /\ NoLaunch
    /\ NoUpload
    /\ rows = [key \in Ids |->
                  IF key \in RunIds
                     THEN [NoItem EXCEPT !.ID = TRUE, !.Type = run,
                                         !.StartTime = FormatTime([inst |-> 0, off |-> 0])]
                  ELSE [NoItem EXCEPT !.ID = TRUE, !.Type = task, !.FlowID = TRUE,
                                      !.RunID = CHOOSE r \in RunIds : TRUE,
                                      !.StartTime = FormatTime([inst |-> 0, off |-> 0])]]
    /\ wall = 0
    /\ kaHist = [key \in Ids |-> -1]
    /\ dbRet = NoDbRet
    /\ NoMore

NextQuery ==
    \/ \E key \in Ids, keepalive \in Times : Keepalive(key, keepalive)
    \/ \E Since \in SinceTimes : Runs(Since)
    \/ \E Since \in SinceTimes : Tasks(Since)
    \/ NextDay

\* Keepalives and queries by time on a run and a task, as days pass.
SpecQuery == InitQuery /\ [][NextQuery]_vars

\* The selector's variables where no selector is used.
NoSelector ==
    /\ configs = <<>>
    /\ unavailable = [t \in {} |-> 0]
    /\ now = 0
    /\ ret = NoRet
    /\ marked = NoneMarked

InitLimiter ==
    /\ NoSelector
    /\ NoLaunch
    /\ NoUpload
    /\ NoTaskDB
    /\ NoMore

NextLimiter ==
    \/ \E Since \in SinceTimes : RunsBegin(Since)
    \/ QueryCall
    \/ QueryReturn
    \/ NextDay

\* Concurrent calls of Runs on a table, as days pass.
SpecLimiter == InitLimiter /\ [][NextLimiter]_vars

InitReflowlet ==
    /\ NoSelector
    /\ NoLaunch
    /\ NoUpload
    /\ NoTaskDB
    /\ NoCalls
    /\ NoBlob
    /\ NewExporters
    /\ NoLast
    /\ \E cluster \in BOOLEAN : ReflowletStarted(cluster)

NextReflowlet ==
    \/ Minute
    \/ WorkArrives
    \/ WorkDone
    \/ IdleCheck
    \/ ExecImageGet
    \/ \E dg \in Images \cup {"bad"} : ExecImagePost(dg)

\* Everything but the blob exec and the rate exporters, unused.
NoCluster ==
    /\ NoSelector
    /\ NoLaunch
    /\ NoUpload
    /\ NoTaskDB
    /\ NoCalls
    /\ NoReflowlet

\* An intern of a URL from a bucket with some objects, into a repository
\* with some files.
InitIntern ==
    /\ NoCluster
    /\ NewExporters
    /\ NoLast
    /\ transferType = intern
    /\ URL \in {<<"a">>}
    /\ Args = {}
    /\ \E S \in SUBSET BlobKeys : blob \in [S -> Objects]
    /\ repository \in SUBSET { Digest(c) : c \in Contents }
    /\ xpc = "init"
    /\ NewExec

NextIntern ==
    \/ InternList
    \/ \E e \in todo : InternFile(e)
    \/ Complete
    \/ Promote

SpecIntern == InitIntern /\ [][NextIntern]_vars

\* The filesets to extern: a single file, or files under paths.
Filesets ==
    { { [path |-> pth, id |-> Digest(c[pth])] : pth \in P } :
        P \in (SUBSET {Dot, <<"a">>, <<"b">>}) \ {{}}, c \in [{Dot, <<"a">>, <<"b">>} -> Contents] }

\* An extern of a fileset to a URL of an empty bucket, from a repository
\* that holds some files.
InitExtern ==
    /\ NoCluster
    /\ NewExporters
    /\ NoLast
    /\ transferType = extern
    /\ URL \in {<<"a">>, <<"a", "/">>}
    /\ Args \in Filesets
    /\ blob = <<>>
    /\ repository \in SUBSET { Digest(c) : c \in Contents }
    /\ xpc = "init"
    /\ NewExec

NextExtern ==
    \/ ExternList
    \/ \E e \in todo : ExternFile(e)
    \/ Complete

SpecExtern == InitExtern /\ [][NextExtern]_vars

\* Exporters of one counter, called in any order and at the same time.
InitRate ==
    /\ NoCluster
    /\ NoBlob
    /\ NewExporters
    /\ NoLast

NextRate ==
    \/ \E i \in Exporters, bytes \in 1..2, elapsed \in 1..MaxElapsed : AddBegin(i, bytes, elapsed)
    \/ \E i \in Exporters : AddEnd(i)

SpecRate == InitRate /\ [][NextRate]_vars

\* A reflowlet that ListenAndServe is about to bring up.
InitBoot ==
    /\ NoSelector
    /\ NoLaunch
    /\ NoUpload
    /\ NoTaskDB
    /\ NoCalls
    /\ NoBlob
    /\ NewExporters
    /\ NoExec
    /\ EC2Cluster \in BOOLEAN
    /\ busy = FALSE
    /\ idleFor = 0
    /\ stopped = FALSE
    /\ proc = "starting"
    /\ timer = FirstSleep
    /\ image \in Images
    /\ uptime = 0
    /\ sinceCheck = -1
    /\ lastCheck = NoCheck
    /\ post = NoPost
    /\ reflowletVersion \in Versions
    /\ configFlag \in {"", "reflow.yaml"}
    /\ Insecure \in BOOLEAN
    /\ lsPc = "config"
    /\ tags = NoTags
    /\ tagWrite = "none"
    /\ handlers = {}
    /\ served = 0
    /\ lsErr = ""

NextBoot ==
    \/ MakeConfig
    \/ SetTags
    \/ PoolStart
    \/ Handle
    \/ Listen
    \/ ConfigRequest
    \/ Minute
    \/ IdleCheck

\* The bring-up of a reflowlet and its first minutes.
SpecBoot == InitBoot /\ [][NextBoot]_vars

InitExec ==
    /\ NoCluster
    /\ NoBlob
    /\ NewExporters
    /\ NoBoot
    /\ NoExec

NextExec ==
    \/ \E c \in Setters, res \in Results : OkCheck(c, res)
    \/ \E c \in Setters : OkSend(c)
    \/ \E c \in Setters : ErrorCall(c)
    \/ \E r \in Readers : ResultSelect(r)
    \/ \E r \in Readers : ResultPutBack(r)

\* A test Exec whose result is set and read concurrently.
SpecExec == InitExec /\ [][NextExec]_vars

\* A reflowlet from p.Start() on.
SpecReflowlet == InitReflowlet /\ [][NextReflowlet]_vars

\* The same where time passes and the goroutine of the idle loop runs when
\* its sleep is over.
FairReflowlet == SpecReflowlet /\ WF_vars(Minute) /\ WF_vars(IdleCheck)

(***************************************************************************)
(* Inputs of the selector.                                                 *)
(***************************************************************************)
Attr(ebs, res, price, spotOk) ==
    [EBSThroughput |-> ebs, Resources |-> res, Price |-> price, SpotOk |-> spotOk]

NoneUnavailable == [t \in {} |-> 0]

\* Catalog entries that differ in size and spot eligibility.
AttrsSel ==
    { Attr(100, r, PriceIn(100), s) : r \in {Res(1, 2), Res(2, 8)}, s \in BOOLEAN }

NeedsSel == {Res(1, 2)}

InitSel ==
    /\ configs \in newInstanceState(NumSelConfigs, AttrsSel)
    /\ unavailable = NoneUnavailable
    /\ now = 0
    /\ ret = NoRet
    /\ marked = NoneMarked
    /\ NoLaunch
    /\ NoUpload
    /\ NoTaskDB
    /\ NoMore

NextSel ==
    \/ Tick
    \/ \E i \in 1..Len(configs) : Unavailable(configs[i])
    \/ \E need \in NeedsSel, spot \in BOOLEAN : MaxAvailable(need, spot)
    \/ \E need \in NeedsSel, spot \in BOOLEAN : MinAvailable(need, spot)
    \/ \E i \in 1..Len(configs) : Type(configs[i].Type)

\* The selector over time: marking, waiting and selecting interleave.
SpecSel == InitSel /\ [][NextSel]_vars

\* Catalog entries that differ in cpu, memory and spot eligibility.
AttrsMax ==
    { Attr(100, r, PriceIn(100), s) :
        r \in {Res(2, 2), Res(1, 8), Res(2, 8)}, s \in BOOLEAN }

NeedsMax == {NoResources, Res(1, 2), Res(2, 8)}

InitMax ==
    /\ configs \in newInstanceState(NumConfigs, AttrsMax)
    /\ unavailable = NoneUnavailable
    /\ now = 0
    /\ ret = NoRet
    /\ marked = NoneMarked
    /\ NoLaunch
    /\ NoUpload
    /\ NoTaskDB
    /\ NoMore

NextMax ==
    \/ \E i \in 1..Len(configs) : Unavailable(configs[i])
    \/ \E need \in NeedsMax, spot \in BOOLEAN : MaxAvailable(need, spot)
    \/ \E need \in NeedsMax, spot \in BOOLEAN : MinAvailable(need, spot)

\* Selection by size, for every catalog, need, spot flag and set of marked types.
SpecMax == InitMax /\ [][NextMax]_vars

\* Catalog entries that differ in price, EBS throughput, offer and spot eligibility.
AttrsMin ==
    { Attr(e, Res(2, 8), p, TRUE) :
        e \in {100, 150, 200},
        p \in {NoPrice} \cup { PriceIn(x) : x \in {100, 120, 130, 400, 440, 460} } }
    \cup { Attr(200, Res(2, 8), PriceIn(120), FALSE),
           Attr(100, Res(2, 8), PriceIn(100), FALSE) }

NeedsMin == {Res(1, 2)}

InitMin ==
    /\ configs \in newInstanceState(NumConfigs, AttrsMin)
    /\ unavailable = NoneUnavailable
    /\ now = 0
    /\ ret = NoRet
    /\ marked = NoneMarked
    /\ NoLaunch
    /\ NoUpload
    /\ NoTaskDB
    /\ NoMore

NextMin ==
    \E need \in NeedsMin, spot \in BOOLEAN : MinAvailable(need, spot)

\* Selection by price, for every catalog of prices and EBS throughputs.
SpecMin == InitMin /\ [][NextMin]_vars

\* Catalog entries that differ in size, spot eligibility and offer in the region.
AttrsBoth ==
    { Attr(100, r, p, s) :
        r \in {Res(1, 2), Res(2, 8)}, p \in {NoPrice, PriceIn(100)}, s \in BOOLEAN }

NeedsBoth == {NoResources, Res(1, 2), Res(2, 8)}

InitBoth ==
    /\ configs \in newInstanceState(NumSelConfigs, AttrsBoth)
    /\ unavailable = NoneUnavailable
    /\ now = 0
    /\ ret = NoRet
    /\ marked = NoneMarked
    /\ NoLaunch
    /\ NoUpload
    /\ NoTaskDB
    /\ NoMore

NextBoth ==
    \/ \E i \in 1..Len(configs) : Unavailable(configs[i])
    \/ \E need \in NeedsBoth, spot \in BOOLEAN : MaxAvailable(need, spot)
    \/ \E need \in NeedsBoth, spot \in BOOLEAN : MinAvailable(need, spot)

\* Both selections on catalogs where some types have no price in the region.
SpecBoth == InitBoth /\ [][NextBoth]_vars

(***************************************************************************)
(* Properties of the launch driver, checked under Spec.                    *)
(***************************************************************************)
\* The states of a launch before the image update.
LaunchStates == stateCapacity..stateDescribeTags

\* C1: whenever Go has returned with Err() == nil, the instance has a
\* non-empty version, its digest tag parses to the local image digest, and
\* the last case that ran was DescribeTags, with the lookup of the local
\* digest having succeeded.
C1_SuccessIsVerified ==
    (pc = "returned" /\ ErrOf = Nil) =>
        /\ ~ec2inst.isNil
        /\ Instance.Version # ""
        /\ digestOnce[2] = Nil
        /\ digestParse(Instance.Digest) = <<digestOnce[1], Nil>>
        /\ attempted = stateDescribeTags

\* A successful launch that went through an image update and whose digest
\* tag is not spelled like the local digest.
C1_Witness ==
    /\ pc = "returned"
    /\ ErrOf = Nil
    /\ Instance.Digest = "sha256:D2"
    /\ stateUpdateImage \in passed

\* C3: the case of a state runs only when the last attempt of every earlier
\* launch state left no error; the state moves forward by exactly one after
\* an attempt without error (DescribeTags with equal digests moves past
\* Done), and moves backward only from UpdateImage to WaitReflowlet.
C3_StatesInOrder ==
    [][ /\ Iteration => \A t \in LaunchStates : t < state => t \in passed
        /\ state' # state =>
             \/ state' = state + 1 /\ err' = Nil /\ opErr' = Nil
             \/ /\ state = stateDescribeTags
                /\ state' = stateDone + 1
                /\ err' = Nil
             \/ /\ state = stateUpdateImage
                /\ state' = stateWaitReflowlet
                /\ err' = Nil
      ]_vars

\* The driver is back in WaitReflowlet after an image update, every launch
\* state having passed.
C3_Witness ==
    /\ pc = "loop"
    /\ attempted = stateUpdateImage
    /\ state = stateWaitReflowlet
    /\ LaunchStates \subseteq passed

\* C4: when the case of a state leaves an error of kind Fatal or
\* Unavailable, Go returns in that iteration without sleeping, Err() has
\* that kind, and once Go has returned nothing of the launch changes.
C4_AbortAtOnce ==
    [][ /\ (Iteration /\ opErr'.kind \in {"Fatal", "Unavailable"}) =>
             /\ pc' = "returned"
             /\ slept' = slept
             /\ err'.kind = opErr'.kind
        /\ pc = "returned" => UNCHANGED goVars
      ]_vars

\* Go has returned on an Unavailable error met on a retry.
C4_Witness ==
    /\ pc = "returned"
    /\ opErr.kind = "Unavailable"
    /\ err.kind = "Unavailable"
    /\ n > 0

\* C5: a state is attempted at most maxTries times in a row.
C5_AtMostMaxTries == tries <= maxTries

\* C10: whenever the case of a state leaves an AWS error with a capacity
\* code, the launch has ended with Err() of kind Unavailable.
C10_CapacityIsUnavailable ==
    opErr.code \in CapacityCodes => (pc = "returned" /\ err.kind = "Unavailable")

\* C11: when the context is cancelled before the launch reaches Done, no
\* further case runs and, once Go has returned, Err() is the context's error.
C11_CancelledReturnsCtxErr ==
    /\ (pc = "loop" /\ ctxErr # Nil) => ~ENABLED Iteration
    /\ (pc = "returned" /\ ctxErr # Nil /\ state < stateDone) => ErrOf = ctxErr

\* C12: in DescribeTags, with both tags set, the digest tag well formed and
\* the local digest known, equal digests end the launch (no case runs in or
\* past Done) and unequal digests lead to UpdateImage; an UpdateImage that
\* does not end the launch leads to WaitReflowlet, and a WaitReflowlet
\* without error to DescribeTags.
C12_UpdateThenVerify ==
    [][ /\ ( /\ Iteration
             /\ state = stateDescribeTags
             /\ ~ec2inst'.isNil
             /\ ec2inst'.Version # ""
             /\ ec2inst'.Digest # ""
             /\ digestParse(ec2inst'.Digest)[2] = Nil
             /\ digestOnce[2] = Nil ) =>
               IF digestParse(ec2inst'.Digest)[1] = digestOnce[1]
                  THEN state' > stateDone /\ err' = Nil
                  ELSE state' = stateUpdateImage /\ pc' = "loop" /\ err' = Nil
        /\ state >= stateDone => ~Iteration
        /\ (Iteration /\ state = stateUpdateImage /\ pc' = "loop") =>
               state' = stateWaitReflowlet /\ err' = Nil
        /\ (Iteration /\ state = stateWaitReflowlet /\ opErr' = Nil) =>
               state' = stateDescribeTags
      ]_vars

\* The launch ended in Done on the digest the update installed.
C12_Witness ==
    /\ pc = "returned"
    /\ ErrOf = Nil
    /\ state > stateDone
    /\ attempted = stateDescribeTags
    /\ stateUpdateImage \in passed
    /\ Instance.Digest = "sha256:d2"

\* C14: launch() is called only after the Capacity state passed; a launch
\* that is not spot or has SpotProbeDepth 0 makes no dry run; otherwise
\* launch() is called only when the last dry run asked for SpotProbeDepth
\* instances and answered DryRunOperation; and after a dry run that ended
\* by request cancellation or deadline Go has returned an error of kind
\* Unavailable and launch() has not been called.
C14_ProbeBeforeLaunch ==
    /\ launched => stateCapacity \in passed
    /\ (~Spot \/ SpotProbeDepth = 0) => dryRun = NoDryRun
    /\ (launched /\ Spot /\ SpotProbeDepth # 0) =>
          /\ dryRun.MinCount = SpotProbeDepth
          /\ dryRun.answer.code = "DryRunOperation"
    /\ (\/ dryRun.answer.code = "RequestCanceled"
        \/ dryRun.answer.kind = "DeadlineExceeded") =>
          /\ pc = "returned"
          /\ ErrOf.kind = "Unavailable"
          /\ ~launched

\* A spot launch whose probe answered DryRunOperation and whose launch()
\* has been called and is being retried.
C14_Witness ==
    /\ Spot
    /\ SpotProbeDepth # 0
    /\ launched
    /\ dryRun.answer.code = "DryRunOperation"
    /\ state = stateLaunch
    /\ tries > 0

\* C15: whenever Go has returned with Err() == nil, the public DNS name of
\* the instance is set and non-empty.
C15_SuccessHasDns ==
    (pc = "returned" /\ ErrOf = Nil) => Instance.PublicDnsName \notin {NilString, ""}

\* C30: a launch that returns because the retry budget of a state is used up
\* has as Err() the very error the operation of that state returned last:
\* not an error wrapped around it and not another error in its place.
C30_ExhaustedKeepsError ==
    (pc = "returned" /\ ctxErr = Nil /\ Exhausted(n) /\ opErr # Nil) => ErrOf = callErr

\* C13: over all callers, the body of the upload has begun at most once;
\* a call returns only after the one execution has ended, and returns its
\* outcome.
C13_UploadOnce ==
    /\ Len(bodies) + Cardinality({ p \in Drivers : upPc[p] \in {"stat", "put"} }) <= 1
    /\ \A p \in Drivers :
          upRet[p] # NoCall => Len(bodies) = 1 /\ upRet[p] = bodies[1]

\* Every driver has made all its calls and has the error of the one upload,
\* and one of them began a call while the upload ran.
C13_Witness ==
    /\ Len(bodies) = 1
    /\ bodies[1] = Err("Net")
    /\ \A p \in Drivers : upCalls[p] = MaxCalls /\ upRet[p] = Err("Net")
    /\ \E p \in Drivers : arrived[p]

(***************************************************************************)
(* Properties of the task database.                                        *)
(***************************************************************************)
\* The items a call returned.
ReturnedRows == { key \in Ids : dbRet.rows[key] > 0 }

\* C18: a Runs or Tasks call by time that returns without error returns
\* every item of its type whose last successful Keepalive was given a time
\* at or after Since.
C18_KeepaliveIsFound ==
    (dbRet.op \in {"Runs", "Tasks"} /\ dbRet.outcome = "ok") =>
        dbRet.expected \subseteq ReturnedRows

\* C19: a Runs or Tasks call by time that returns without error has issued
\* one query per day from date(since) to date(now) and returns every item
\* its queries match once, and nothing else.
C19_OneQueryPerBucket ==
    (dbRet.op \in {"Runs", "Tasks"} /\ dbRet.outcome = "ok") =>
        /\ dbRet.issued = dbRet.k
        /\ \A key \in Ids : dbRet.rows[key] = IF key \in dbRet.matching THEN 1 ELSE 0

\* The UTC day of a time written with timeLayout.
DayOfStamp(str) == (str.sec * TicksPerSec - str.off) \div TicksPerDay

\* C20: every item that has a Keepalive has a Date, which is the UTC day of
\* that Keepalive and of the time its last Keepalive call was given.
C20_DateFollowsKeepalive ==
    \A key \in Ids :
        /\ rows[key].Keepalive # NoTimeAttr =>
              /\ rows[key].Date # NoDateAttr
              /\ rows[key].Date = DayOfStamp(rows[key].Keepalive)
              /\ kaHist[key] # -1
              /\ rows[key].Date = kaHist[key] \div TicksPerDay
        /\ rows[key].Date # NoDateAttr => rows[key].Keepalive # NoTimeAttr

\* A task with a result and its logs was kept alive on a later day than the
\* first, and Keepalive made the item of a run that was never created.
C20_Witness ==
    /\ \E key \in TaskIds :
          /\ rows[key].Type = task
          /\ rows[key].ResultID
          /\ rows[key].Stdout
          /\ rows[key].Date > 0
    /\ \E key \in RunIds :
          /\ rows[key].Type = ""
          /\ rows[key].Keepalive # NoTimeAttr
          /\ rows[key].Date = 0

\* C27: the RunID of every task item is the ID of a run item of the table.
C27_TaskRunExists ==
    \A key \in Ids :
        (rows[key].ID /\ rows[key].Type = task) =>
            \E r \in Ids : /\ r = rows[key].RunID
                           /\ rows[r].ID
                           /\ rows[r].Type = run

\* C28: the Keepalive of every item that has one is not before its
\* StartTime.
C28_KeepaliveAfterStart ==
    \A key \in Ids :
        (rows[key].Keepalive # NoTimeAttr /\ rows[key].StartTime # NoTimeAttr) =>
            ~StringGreater(rows[key].StartTime, rows[key].Keepalive)

\* C29: at no time are more calls to the database outstanding than the
\* limiter was given tokens.
C29_AtMostLimitOutstanding == inflight <= limiterTokens

\* An intern has completed and nothing was promoted yet.
InternComplete == transferType = intern /\ xpc = "complete"

\* Every entry whose content the repository held is in the result of a
\* completed intern, with the digest of that content as id.
HeldAppear ==
    InternComplete =>
        \A e \in Entries :
            Digest(blob[e.key].content) \in repository =>
                [path |-> e.path, id |-> Digest(blob[e.key].content)] \in fileset

C22_InternFileset ==
    (transferType = intern /\ xpc \in {"complete", "promoted"}) =>
        IF URL \in DOMAIN blob
           THEN fileset = {[path |-> Dot, id |-> Digest(blob[URL].content)]}
        ELSE /\ \A f \in fileset :
                    /\ URL \o f.path \in DOMAIN blob
                    /\ f.id = Digest(blob[URL \o f.path].content)
             /\ \A k \in DOMAIN blob :
                    HasPrefix(k, URL) => \E f \in fileset : URL \o f.path = k

\* An intern of a prefix with two objects under it has been promoted.
C22_Witness ==
    /\ transferType = intern
    /\ xpc = "promoted"
    /\ URL \notin DOMAIN blob
    /\ Cardinality(fileset) = 2

RECURSIVE SumOfRates(_)
SumOfRates(S) ==
    IF S = {} THEN 0
    ELSE LET i == CHOOSE x \in S : TRUE IN rate(i) + SumOfRates(S \ {i})

C24_ExternKeys ==
    (transferType = extern /\ xpc = "complete") =>
        /\ fileset = Args
        /\ IF { a.path : a \in Args } = {Dot}
              THEN /\ DOMAIN blob = {URL}
                   /\ \A a \in Args : Digest(blob[URL].content) = a.id
           ELSE /\ DOMAIN blob = { URL \o a.path : a \in Args }
                /\ \A a \in Args : Digest(blob[URL \o a.path].content) = a.id

\* An extern of a single-file fileset has completed.
C24_Witness ==
    /\ transferType = extern
    /\ xpc = "complete"
    /\ { a.path : a \in Args } = {Dot}
    /\ URL \in DOMAIN blob

\* The idle loop of a reflowlet: without EC2Cluster there is no check; the
\* first check comes no sooner than expiry after p.Start() and every other
\* one no sooner than a period after the one before; the process has exited
\* exactly when the last check found the pool idle for expiry.
IdleLoopSafe ==
    /\ ~EC2Cluster => (~lastCheck.made /\ proc # "exited")
    /\ lastCheck.made =>
          /\ lastCheck.uptime >= expiry
          /\ lastCheck.since # -1 => lastCheck.since >= period
    /\ proc = "exited" <=> (lastCheck.made /\ lastCheck.idle)

\* C25: in EC2-cluster mode the idle loop makes no check in the first ten
\* minutes and then one per minute; the worker exits at the first check
\* that finds the pool idle for ten minutes and at no check that does not;
\* and a worker that stays idle from some time on ends.
C25_IdleLoop ==
    /\ []IdleLoopSafe
    /\ (EC2Cluster /\ <>[](~busy)) => <>(proc # "running")

\* The loop has slept through busy minutes, checked more than once, and
\* exited at a check that found the pool idle.
C25_Witness ==
    /\ proc = "exited"
    /\ lastCheck.since # -1
    /\ lastCheck.idle

\* C26: a POST to /v1/execimage that finds the pool not idle replies with an
\* error, calls neither repo.Get nor InstallImageReflowlet and leaves the
\* image and the process as they were.
C26_PostOnlyIfIdle ==
    (post.method = "POST" /\ ~post.idle) =>
        /\ post.reply = "error"
        /\ ~post.fetched
        /\ ~post.installed
        /\ post.is = post.was

\* A POST was refused while the pool had work.
C26_Witness ==
    /\ post.method = "POST"
    /\ ~post.idle
    /\ busy
    /\ post.reply = "error"

(***************************************************************************)
(* Properties of the selector.  They are stated on the last call, ret,     *)
(* and on the list the selector holds.                                     *)
(***************************************************************************)
Selectors == {"MaxAvailable", "MinAvailable", "Type"}

\* The positions of the configs a call r could choose from: not marked
\* within the sleep window at the call, spot-eligible when r asks for spot,
\* and satisfying r's need.
Candidates(r) ==
    { i \in 1..Len(configs) :
        /\ configs[i].Type \notin r.asleep
        /\ r.spot => configs[i].SpotOk
        /\ ResAvailable(configs[i].Resources, r.need) }

\* The candidates offered in the region.
Viable(r) == { i \in Candidates(r) : region \in DOMAIN configs[i].Price }

PriceAt(i) == configs[i].Price[region]

EBSAt(i) == configs[i].EBSThroughput

DistanceAt(i, r) == ScaledDistance(configs[i].Resources, r.need)

\* The first of the cheapest viable configs.
Cheapest(r) ==
    CHOOSE i \in Viable(r) :
        \A j \in Viable(r) : PriceAt(i) < PriceAt(j) \/ (PriceAt(i) = PriceAt(j) /\ i <= j)

\* C2: a selector call made while a type is within the sleep window of its
\* marking does not return that type.
C2_MarkedIsExcluded ==
    ret.op \in Selectors => ret.config.Type \notin ret.asleep

\* A selection that succeeded although a config that satisfies the call was
\* within its window, and a lookup by name that was refused.
C2_Witness ==
    /\ ret.op = "MinAvailable"
    /\ ret.ok
    /\ \E i \in 1..Len(configs) :
          /\ configs[i].Type \in ret.asleep
          /\ ResAvailable(configs[i].Resources, ret.need)
          /\ ret.spot => configs[i].SpotOk
          /\ i < CHOOSE k \in 1..Len(configs) : configs[k] = ret.config

\* C16: a lookup by name succeeds exactly when the type was never marked or
\* its last marking is at least sleepTime ago, whatever earlier markings
\* there were; and MaxAvailable and MinAvailable return one of the configs
\* that are outside the window of their last marking and pass the other
\* filters, whenever there is one.
C16_SelectableAfterWindow ==
    /\ ret.op = "Type" =>
          /\ ret.ok <=> ret.typ \notin ret.asleep
          /\ ret.ok => ret.config.Type = ret.typ
    /\ (ret.op = "MaxAvailable" /\ Candidates(ret) # {}) =>
          /\ ret.ok
          /\ \E i \in Candidates(ret) : ret.config = configs[i]
    /\ (ret.op = "MinAvailable" /\ Viable(ret) # {}) =>
          /\ ret.ok
          /\ \E i \in Viable(ret) : ret.config = configs[i]

\* A type marked twice at different times is found by name exactly
\* sleepTime after its second marking.
C16_Witness ==
    /\ ret.op = "Type"
    /\ ret.ok
    /\ ret.typ \in DOMAIN marked
    /\ marked[ret.typ].first < marked[ret.typ].last
    /\ now = marked[ret.typ].last + sleepTime

\* A need that the resources of the zero config do not satisfy.
AsksForSomething(need) == ~ResAvailable(NoResources, need)

C6_SpotOnly ==
    (ret.op \in {"MaxAvailable", "MinAvailable"} /\ ret.spot /\ ret.ok) => ret.config.SpotOk

\* C7: when some config passes the filters, MaxAvailable returns ok and the
\* first config of the list among those of greatest scaled distance.
C7_MaxIsFirstLargest ==
    (ret.op = "MaxAvailable" /\ Candidates(ret) # {}) =>
        /\ ret.ok
        /\ \E i \in Candidates(ret) :
              /\ ret.config = configs[i]
              /\ \A j \in Candidates(ret) :
                    \/ DistanceAt(j, ret) < DistanceAt(i, ret)
                    \/ (DistanceAt(j, ret) = DistanceAt(i, ret) /\ i <= j)

\* MaxAvailable chose between two configs of different shape and equal,
\* greatest distance.
C7_Witness ==
    /\ ret.op = "MaxAvailable"
    /\ ret.ok
    /\ \E i, j \in Candidates(ret) :
          /\ i < j
          /\ ret.config = configs[i]
          /\ configs[i].Resources # configs[j].Resources
          /\ DistanceAt(i, ret) = DistanceAt(j, ret)
          /\ \A k \in Candidates(ret) : DistanceAt(k, ret) <= DistanceAt(i, ret)

\* C8: when a viable config has at least ebsThroughputBenefitPct more EBS
\* throughput than the cheapest and costs at most ebsThroughputPremiumCost
\* or at most ebsThroughputPremiumPct more, MinAvailable returns a config
\* with at least that much more EBS throughput than the cheapest.
C8_PremiumAtBoundary ==
    (ret.op = "MinAvailable" /\ Viable(ret) # {}) =>
        LET c == Cheapest(ret)
        IN  (\E i \in Viable(ret) :
                /\ EBSAt(i) * 100 >= EBSAt(c) * (100 + ebsThroughputBenefitPct)
                /\ \/ PriceAt(i) <= PriceAt(c) + ebsThroughputPremiumCost
                   \/ PriceAt(i) * 100 <= PriceAt(c) * (100 + ebsThroughputPremiumPct))
            => ret.config.EBSThroughput * 100
                   >= EBSAt(c) * (100 + ebsThroughputBenefitPct)

\* C9: the config MinAvailable returns is viable, and no viable config is
\* both strictly cheaper in the region and of strictly higher EBS throughput.
C9_NotDominated ==
    (ret.op = "MinAvailable" /\ Viable(ret) # {}) =>
        \E k \in Viable(ret) :
            /\ ret.config = configs[k]
            /\ \A i \in Viable(ret) : ~(PriceAt(i) < PriceAt(k) /\ EBSAt(i) > EBSAt(k))

\* MinAvailable chose among NumConfigs viable configs and paid a premium.
C9_Witness ==
    /\ ret.op = "MinAvailable"
    /\ ret.ok
    /\ Cardinality(Viable(ret)) >= 3
    /\ ret.config.Price[region] > PriceAt(Cheapest(ret))
    /\ \E i \in Viable(ret) : PriceAt(i) > ret.config.Price[region]

\* C31: the config MinAvailable returns is viable, and no viable config has
\* at least its EBS throughput at a strictly lower price in the region.
C31_NotBeatenOnPrice ==
    (ret.op = "MinAvailable" /\ Viable(ret) # {}) =>
        \E k \in Viable(ret) :
            /\ ret.config = configs[k]
            /\ \A i \in Viable(ret) : ~(PriceAt(i) < PriceAt(k) /\ EBSAt(i) >= EBSAt(k))

\* MinAvailable passed over a config worth the premium for a later one of
\* no less throughput that is cheaper.
C31_Witness ==
    /\ ret.op = "MinAvailable"
    /\ ret.ok
    /\ \E i, k \in Viable(ret) :
          /\ i < k
          /\ ret.config = configs[k]
          /\ PriceAt(k) < PriceAt(i)
          /\ EBSAt(k) >= EBSAt(i)
          /\ EBSAt(i) * 100 > EBSAt(Cheapest(ret)) * (100 + ebsThroughputBenefitPct)

\* C32: the k-th delay slept since the last success of a state is
\* 5 * 2^(k-1) seconds, the counter and the delay follow it, and every
\* iteration that leaves no error, the image update that sends the loop back
\* to stateWaitReflowlet included, leaves the counter at 0 and the delay at
\* 5 seconds.
C32_Backoff ==
    /\ [](/\ Len(slept) = n
          /\ \A k \in 1..Len(slept) : slept[k] = 5 * 2^(k - 1)
          /\ d = 5 * 2^n)
    /\ [][ (Iteration /\ pc' = "loop" /\ opErr' = Nil) =>
             (n' = 0 /\ d' = 5 /\ slept' = <<>>) ]_vars

\* The loop is back at stateWaitReflowlet after an image update and has
\* slept three times there.
C32_Witness ==
    /\ state = stateWaitReflowlet
    /\ stateUpdateImage \in passed
    /\ slept = <<5, 10, 20>>

\* C36: whenever MaxAvailable or MinAvailable returns ok, the config it
\* returns is one of the selector's configs and its Type is not empty; so
\* when no config passes the filters the call does not return ok.
C36_OkIsOfSelector ==
    (ret.op \in {"MaxAvailable", "MinAvailable"} /\ ret.ok) =>
        /\ ret.config.Type # ""
        /\ \E i \in 1..Len(configs) : ret.config = configs[i]

\* C35: during one run of Go the cloud creates at most one instance for the
\* driver.
C35_AtMostOneInstance == created <= 1

\* C34: when the context is never cancelled, Go comes to an end: the loop
\* is left, by a return or a crash, after finitely many iterations.
C34_GoTerminates == <>(ctxErr # Nil \/ pc # "loop")

\* C39: a failed upload is not remembered: a call of uploadImage that begins
\* after the upload has failed goes on to perform the upload itself, and
\* does not return the error of the earlier one.
C39_FailedUploadRetried ==
    [][ \A self \in Drivers :
          (DoEnter(self) /\ bodies # <<>> /\ bodies[Len(bodies)] # Nil) =>
              /\ upPc'[self] = "lock"
              /\ upRet'[self] = upRet[self]
      ]_vars

\* C37: for a query by time, every item the queries of Tasks read has Type
\* "task" and every item the queries of Runs read has Type "run".
C37_ReadsOwnType ==
    [][ \A Since \in SinceTimes :
          /\ (Tasks(Since) /\ dbRet'.outcome # "err") =>
                 \A key \in dbRet'.matching : rows[key].Type = task
          /\ (Runs(Since) /\ dbRet'.outcome # "err") =>
                 \A key \in dbRet'.matching : rows[key].Type = run
      ]_vars

\* C38: a POST to /v1/execimage that does not replace the image leaves the
\* pool running: while the reflowlet process runs, its pool is not stopped.
C38_StoppedOnlyIfReplaced ==
    /\ proc = "running" => ~stopped
    /\ (post.method = "POST" /\ ~post.installed) => proc = "running"

\* C33: in a cluster, a reflowlet that has registered a handler, listens or
\* has answered a request to /v1/config has written its version and digest
\* tags; and one whose tag write failed has registered no handler, has
\* answered nothing and has returned from ListenAndServe.
C33_TagsBeforeServing ==
    /\ (EC2Cluster /\ (handlers # {} \/ lsPc \in {"listen", "serving"} \/ served > 0)) =>
          /\ tagWrite = "ok"
          /\ tags = [version |-> reflowletVersion, digest |-> image]
    /\ tagWrite = "failed" =>
          /\ handlers = {}
          /\ served = 0
          /\ lsPc = "returned"
          /\ lsErr = "set tags"

\* A reflowlet of a cluster has written its tags and answered requests to
\* /v1/config.
C33_Witness ==
    /\ EC2Cluster
    /\ tagWrite = "ok"
    /\ lsPc = "serving"
    /\ served = MaxRequests

\* C40: Ok sends a result into resultc at most once, every call of result
\* that returns a result returns that one, and a caller of result that holds
\* the result can put it back.
C40_ResultSetOnce ==
    /\ Len(stored) <= 1
    /\ \A r \in Readers : rdRet[r] \in Results => rdRet[r] = stored[1]
    /\ \A r \in Readers : (rdPc[r] = "putback" /\ crashed = "") => HasRoom

====
